---- MODULE Spec2Model ----
(***************************************************************************)
(* hdx-python-api: the Resource record (src/hdx/data/resource.py), its     *)
(* CRUD wrappers around the generic HDXObject base, and the datastore      *)
(* operations (delete_datastore, download, create_datastore,               *)
(* update_datastore and the methods that load the schema from a file);     *)
(* the searches of Resource and Dataset; and the methods of Dataset that   *)
(* take an object (resources, maintainer, organization, showcases), its    *)
(* tags, and the fields of a dataset served on request, as the tests of    *)
(* Dataset exercise them.                                                  *)
(*                                                                         *)
(* A record is a function from the field names it holds to their values    *)
(* (a Python dict: a field that is not in DOMAIN data is an absent key).   *)
(* A remote call is one entry of the log `calls`, with the response the    *)
(* remote gave to it.  Every remote response is chosen by the              *)
(* environment.                                                            *)
(***************************************************************************)
EXTENDS Integers, Sequences, FiniteSets, TLC

VARIABLES
    data,       \* self.data of the record the operations act on
    op,         \* the public method the caller invoked last
    pc,         \* position inside that method
    calls,      \* remote calls issued since the method was invoked, in order
    outcome,    \* how the method ended: [kind, exc, msg]
    ddret,      \* how the delete_datastore invocation of this method ended
    files,      \* paths of the temporary files that exist on disk
    ndownloads, \* number of temporary files download_file created so far
    url,        \* create_datastore local: url
    path,       \* create_datastore local: path
    f,          \* create_datastore local: f (None or an open file)
    rows,       \* create_datastore local: len(rows), the parsed data rows
    offset,     \* create_datastore local: offset
    pending,    \* exception raised inside the try block, not yet propagated
    prev,       \* how far the datastore method invoked before this one got
    objtype,    \* the class of the record: "resource" or "dataset"
    resources,  \* a dataset's resources (their records), in order
    args,       \* the arguments of the method invoked last
    before,     \* self.data as it was when that method was invoked
    result,     \* read_from_hdx: the value returned to the caller
    page_size,  \* dataset.page_size, the configured ceiling of rows per request
    matches,    \* how many objects the remote holds for the query
    kwargs,     \* search_in_hdx: the paging options given by the caller
    start,      \* search_in_hdx: offset of the next search request
    found,      \* search_in_hdx: the objects gathered, in order
    counts,     \* search_in_hdx: the total counts the remote reported
    pages,      \* search_in_hdx: the requests issued, each with its reply
    param,      \* the object handed to a method of the dataset
    resources_before,   \* the dataset's resources when that method was invoked
    showcases   \* ids of the showcases the remote associates to the dataset

vars == <<data, op, pc, calls, outcome, ddret, files, ndownloads,
          url, path, f, rows, offset, pending, prev, objtype, resources,
          args, before, result, page_size, matches, kwargs, start, found,
          counts, pages, param, resources_before, showcases>>

\* The state of a search, and the state only the dataset methods touch.
paging == <<page_size, matches, kwargs, start, found, counts, pages>>

assoc == <<param, resources_before, showcases>>

\* The state only the CRUD methods touch, and only the datastore methods.
crud == <<objtype, resources, args, before, result, paging, assoc>>

datastore ==
    <<ddret, files, ndownloads, url, path, f, rows, offset, pending, prev>>

None == "None"

Min(a, b) == IF a <= b THEN a ELSE b

Last(s) == s[Len(s)]

(***************************************************************************)
(* Bounds and inputs.                                                      *)
(***************************************************************************)
MaxChunks == 2
MaxDownloads == 2
MaxPageSize == 2
MaxMatches == 4
MaxResources == 2

chunksize == 10000

\* Row counts of the downloaded CSV file: around every multiple of chunksize.
RowCounts ==
    {n \in {k * chunksize + d : k \in 0..MaxChunks, d \in {-1, 0, 1}} : n >= 0}

Ids == {"res1", "res2"}
Names == {"Resource1"}
Urls == {"", "http://resource1.csv"}

DatastoreFields == {"id", "url"}

\* The records the datastore operations are tried on: every combination of a
\* present or absent id and a present, empty or absent url.
IsRecord(d) ==
    /\ "id" \in DOMAIN d => d["id"] \in Ids
    /\ "url" \in DOMAIN d => d["url"] \in Urls
    /\ "name" \in DOMAIN d => d["name"] \in Names

DatastoreRecords ==
    {d \in UNION {[flds -> Ids \cup Urls] : flds \in SUBSET DatastoreFields} :
        IsRecord(d)}

(***************************************************************************)
(* The remote action protocol: a response is {success, result | error}.    *)
(***************************************************************************)
RespOK == [status |-> 200, success |-> TRUE, etype |-> "none"]

Failures ==
    { [status |-> 404, success |-> FALSE, etype |-> "Not Found Error"],
      [status |-> 200, success |-> FALSE, etype |-> "Not Found Error"],
      [status |-> 409, success |-> FALSE, etype |-> "Validation Error"],
      [status |-> 200, success |-> FALSE, etype |-> "Validation Error"],
      [status |-> 0,   success |-> FALSE, etype |-> "ConnectionError"] }

Responses == {RespOK} \cup Failures

\* What the transport hands back for a response: the result, the NotFound
\* exception, or any other exception.
call_remoteckan(resp) ==
    IF resp.success THEN "result"
    ELSE IF resp.etype = "Not Found Error" THEN "NotFound"
    ELSE "error"

\* HDXObject._read_from_hdx: (True, result), (False, message) for an ordinary
\* not-found, HDXError for every other failure.
_read_from_hdx(resp) ==
    IF call_remoteckan(resp) = "result" THEN "ok"
    ELSE IF call_remoteckan(resp) = "NotFound" THEN "not_found"
    ELSE "HDXError"

\* HDXObject._write_to_hdx: the result, or HDXError for whatever went wrong.
_write_to_hdx_by_status(resp) ==
    IF resp.status = 200 THEN "ok" ELSE "HDXError"

_write_to_hdx(resp) ==
    IF call_remoteckan(resp) = "result" THEN "ok" ELSE "HDXError"

\* A record without fields: dict().
EmptyRecord == [fld \in {} |-> ""]

\* One remote request as the log keeps it, with the response it got.
Call(action, id, resource_id, force, method, lo, hi, resp) ==
    [action |-> action, id |-> id, resource_id |-> resource_id, force |-> force,
     method |-> method, lo |-> lo, hi |-> hi, resp |-> resp,
     result |-> EmptyRecord]

actions ==
    [show |-> "resource_show", update |-> "resource_update",
     create |-> "resource_create", delete |-> "resource_delete",
     search |-> "resource_search", datastore_delete |-> "datastore_delete",
     datastore_create |-> "datastore_create",
     datastore_upsert |-> "datastore_upsert"]

(***************************************************************************)
(* How a method ends.                                                      *)
(***************************************************************************)
NoOutcome == [kind |-> "none", exc |-> "", msg |-> "", arg |-> None, cause |-> ""]

Return == [kind |-> "return", exc |-> "", msg |-> "", arg |-> None, cause |-> ""]

Raise(exc, msg, arg, cause) ==
    [kind |-> "raise", exc |-> exc, msg |-> msg, arg |-> arg, cause |-> cause]

Idle == pc \in {"idle", "done"}

NoArg == [identifier |-> None, allow_no_resources |-> FALSE, field |-> None]

NoResult == [kind |-> "unset", data |-> EmptyRecord]

\* A path is <<>> before download() returned, then the name of the n-th
\* temporary file download_file created.
NoPath == <<>>

TmpFile(n) == <<"tmpfile", n>>

\* dict.get(key, None)
Get(d, key) == IF key \in DOMAIN d THEN d[key] ELSE None

\* What is left of a datastore method when the next one is invoked: of an
\* upload that failed at an upsert, whether it ran inside an update or a
\* create method, the offset it had reached and the file it read; of any
\* other call, nothing.
NoProgress == [op |-> "none", offset |-> 0, upsert_failed |-> FALSE, path |-> NoPath]

Progress ==
    IF /\ Len(calls) > 0
       /\ Last(calls).action = actions.datastore_upsert
       /\ ~Last(calls).resp.success
    THEN [op |-> IF op \in {"update_datastore",
                             "update_datastore_from_yaml_schema",
                             "update_datastore_from_json_schema",
                             "update_datastore_for_topline"}
                 THEN "update_datastore" ELSE "create_datastore",
          offset |-> offset, upsert_failed |-> TRUE, path |-> path]
    ELSE NoProgress

\* The paging options of a search: rows is read only when it was given.
NoKwargs == [rows_given |-> FALSE, rows |-> 0]

\* No search has run: the page size is configured, nothing is gathered.
NoSearch ==
    /\ page_size = MaxPageSize
    /\ matches = 0
    /\ kwargs = NoKwargs
    /\ start = 0
    /\ found = <<>>
    /\ counts = {}
    /\ pages = <<>>

\* What a method of the dataset is handed: a record (a dict or an object of
\* the library), an identifier (a str), a list of such, or something else.
Param(kind, rec, id, list) == [kind |-> kind, rec |-> rec, id |-> id, list |-> list]

NoneParam == Param("none", EmptyRecord, None, <<>>)

\* No method of the dataset has run.
NoParam ==
    /\ param = NoneParam
    /\ resources_before = <<>>
    /\ showcases = {}

(***************************************************************************)
(* Resource.delete_datastore                                               *)
(***************************************************************************)
\* How delete_datastore ends, given what _read_from_hdx did with the
\* datastore_delete call: an unsuccessful read is logged, nothing is raised.
delete_datastore_raises_unless_success(r) ==
    IF r = "ok" THEN "return" ELSE "HDXError"

delete_datastore_ends(r) ==
    IF r = "HDXError" THEN "HDXError" ELSE "return"

\* The methods that end in create_datastore: create_datastore itself, the
\* ones that take the schema from a dictionary or load it from a file first,
\* and the update methods, which call delete_datastore before them.
CreateFromFile ==
    {"create_datastore_from_yaml_schema", "create_datastore_from_json_schema",
     "create_datastore_for_topline"}

CreateVariants ==
    {"create_datastore", "create_datastore_from_dict_schema"} \cup CreateFromFile

UpdateFromFile ==
    {"update_datastore_from_yaml_schema", "update_datastore_from_json_schema",
     "update_datastore_for_topline"}

UpdateVariants == {"update_datastore"} \cup UpdateFromFile

\* The first statement of every update method is self.delete_datastore().
UpdateStart_creates_first == "cd_download"

UpdateStart == "dd"

\* What follows delete_datastore in an update method: create_datastore, or
\* the create method that loads the schema.
AfterDelete(o) == IF o \in UpdateFromFile THEN "cd_schema" ELSE "cd_download"

\* What load_yaml / load_json and data['schema'] can do: the file may not
\* load, the loaded dictionary may lack the schema key.
SchemaLoads(o) ==
    IF o = "create_datastore_from_dict_schema"
    THEN {"ok", "KeyError"}
    ELSE {"ok", "KeyError", "LoadError"}

\* The caller invokes delete_datastore().
call_delete_datastore ==
    /\ Idle
    /\ op' = "delete_datastore"
    /\ pc' = "dd"
    /\ calls' = <<>>
    /\ outcome' = NoOutcome
    /\ ddret' = "none"
    /\ url' = None /\ path' = NoPath /\ f' = None /\ rows' = 0 /\ offset' = 0
    /\ pending' = NoOutcome
    /\ prev' = Progress
    /\ UNCHANGED <<data, files, ndownloads, crud>>

\* The caller invokes update_datastore(schema, primary_key): its first
\* statement is self.delete_datastore().
call_update_datastore ==
    /\ Idle
    /\ ndownloads < MaxDownloads
    /\ op' = "update_datastore"
    /\ pc' = UpdateStart
    /\ calls' = <<>>
    /\ outcome' = NoOutcome
    /\ ddret' = "none"
    /\ url' = None /\ path' = NoPath /\ f' = None /\ rows' = 0 /\ offset' = 0
    /\ pending' = NoOutcome
    /\ prev' = Progress
    /\ UNCHANGED <<data, files, ndownloads, crud>>

\* The caller invokes update_datastore_from_yaml_schema: self.delete_datastore() first.
call_update_datastore_from_yaml_schema ==
    /\ Idle
    /\ ndownloads < MaxDownloads
    /\ op' = "update_datastore_from_yaml_schema"
    /\ pc' = UpdateStart
    /\ calls' = <<>>
    /\ outcome' = NoOutcome
    /\ ddret' = "none"
    /\ url' = None /\ path' = NoPath /\ f' = None /\ rows' = 0 /\ offset' = 0
    /\ pending' = NoOutcome
    /\ prev' = Progress
    /\ UNCHANGED <<data, files, ndownloads, crud>>

\* The caller invokes update_datastore_for_topline: self.delete_datastore() first.
call_update_datastore_for_topline ==
    /\ Idle
    /\ ndownloads < MaxDownloads
    /\ op' = "update_datastore_for_topline"
    /\ pc' = UpdateStart
    /\ calls' = <<>>
    /\ outcome' = NoOutcome
    /\ ddret' = "none"
    /\ url' = None /\ path' = NoPath /\ f' = None /\ rows' = 0 /\ offset' = 0
    /\ pending' = NoOutcome
    /\ prev' = Progress
    /\ UNCHANGED <<data, files, ndownloads, crud>>

\* The caller invokes update_datastore_from_json_schema: self.delete_datastore() first.
call_update_datastore_from_json_schema ==
    /\ Idle
    /\ ndownloads < MaxDownloads
    /\ op' = "update_datastore_from_json_schema"
    /\ pc' = UpdateStart
    /\ calls' = <<>>
    /\ outcome' = NoOutcome
    /\ ddret' = "none"
    /\ url' = None /\ path' = NoPath /\ f' = None /\ rows' = 0 /\ offset' = 0
    /\ pending' = NoOutcome
    /\ prev' = Progress
    /\ UNCHANGED <<data, files, ndownloads, crud>>

\* self.data['id'], lines 157, 193 and 205: the id, or KeyError.
IdLookup_get(d) == [found |-> TRUE, id |-> Get(d, "id")]

IdLookup(d) == [found |-> "id" \in DOMAIN d, id |-> Get(d, "id")]

\* The body of delete_datastore, lines 157-161.
delete_datastore ==
    /\ pc = "dd"
    /\ IF ~IdLookup(data).found
       THEN /\ ddret' = "KeyError"
            /\ outcome' = Raise("KeyError", "id", None, "")
            /\ pc' = "done"
            /\ calls' = calls
       ELSE \E resp \in Responses :
              LET ends == delete_datastore_ends(_read_from_hdx(resp)) IN
              /\ calls' = Append(calls,
                    Call(actions.datastore_delete, None, IdLookup(data).id,
                         TRUE, "", 0, 0, resp))
              /\ ddret' = ends
              /\ IF ends = "return"
                 THEN IF op \in UpdateVariants
                      THEN pc' = AfterDelete(op) /\ outcome' = outcome
                      ELSE pc' = "done" /\ outcome' = Return
                 ELSE /\ pc' = "done"
                      /\ outcome' = Raise("HDXError",
                            "Failed when trying to read", IdLookup(data).id, "")
    /\ UNCHANGED <<data, op, files, ndownloads, url, path, f, rows, offset,
                   pending, crud, prev>>

(***************************************************************************)
(* Resource.download and Resource.create_datastore                         *)
(***************************************************************************)
\* rows[a:b] of a list of n rows, as the positions it holds: lo .. hi-1.
PySlice(n, a, b) == [lo |-> Min(a, n), hi |-> Min(b, n)]

\* offset += chunksize
NextOffset_overlapping(o) == o + chunksize - 1

NextOffset(o) == o + chunksize

\* offset = 0, line 201: a local of this call, nothing of an earlier call.
StartOffset_resumes == prev.offset

StartOffset == 0

\* while offset < len(rows)
LoopCond_runs_once(o, n) == o = 0 \/ o < n

LoopCond_inclusive(o, n) == o <= n

LoopCond(o, n) == o < n

\* Line 194 is outside the try block: when _write_to_hdx raises, the method
\* is left at once; otherwise the file is opened.
AfterCreate_ignores_failure(w) == "cd_open"

AfterCreate(w) == IF w = "ok" THEN "cd_open" ELSE "done"

\* How create_datastore ends after the finally clause: with the exception
\* the except clause raised, or normally.
MethodEnds_returns(p) == Return

MethodEnds(p) == IF p = NoOutcome THEN Return ELSE p

\* Where control goes when _write_to_hdx raises inside the loop: the except
\* clause of line 209 and then the finally clause; the loop is left.
AfterFailedUpsert_retries == "cd_loop"

AfterFailedUpsert == "cd_finally"

\* if not url, line 175: None and the empty string are both falsy.
NoUrl_only_none(u) == u = None

NoUrl(u) == u = None \/ u = ""

\* The request dictionaries of lines 193 and 205, without the schema, the
\* primary key and the records.
datastore_create_data(d) == [resource_id |-> IdLookup(d).id, force |-> TRUE]

datastore_upsert_data_unforced(d) ==
    [resource_id |-> IdLookup(d).id, force |-> FALSE, method |-> "upsert"]

datastore_upsert_data(d) ==
    [resource_id |-> IdLookup(d).id, force |-> TRUE, method |-> "upsert"]

\* The exception the except clause of create_datastore raises.
UploadFailed_reraises(u, cause) ==
    Raise(cause, "", u, "")

UploadFailed(u, cause) ==
    Raise("HDXError", "Upload to datastore failed", u, cause)

\* finally: if f: f.close(); os.unlink(path)
Finally_keeps_file(fh, p, fs) == fs

Finally(fh, p, fs) == IF fh # None THEN fs \ {p} ELSE fs

\* What open(path) and csv.DictReader make of the downloaded file.
FileContents ==
    {[kind |-> "open fails", n |-> 0], [kind |-> "parse fails", n |-> 0]}
        \cup {[kind |-> "rows", n |-> n] : n \in RowCounts}

\* The caller invokes create_datastore(schema, primary_key).
call_create_datastore ==
    /\ Idle
    /\ ndownloads < MaxDownloads
    /\ op' = "create_datastore"
    /\ pc' = "cd_download"
    /\ calls' = <<>>
    /\ outcome' = NoOutcome
    /\ ddret' = "none"
    /\ url' = None /\ path' = NoPath /\ f' = None /\ rows' = 0 /\ offset' = 0
    /\ pending' = NoOutcome
    /\ prev' = Progress
    /\ UNCHANGED <<data, files, ndownloads, crud>>

\* The caller invokes create_datastore_from_dict_schema(data).
call_create_datastore_from_dict_schema ==
    /\ Idle
    /\ ndownloads < MaxDownloads
    /\ op' = "create_datastore_from_dict_schema"
    /\ pc' = "cd_schema"
    /\ calls' = <<>>
    /\ outcome' = NoOutcome
    /\ ddret' = "none"
    /\ url' = None /\ path' = NoPath /\ f' = None /\ rows' = 0 /\ offset' = 0
    /\ pending' = NoOutcome
    /\ prev' = Progress
    /\ UNCHANGED <<data, files, ndownloads, crud>>

\* The caller invokes create_datastore_from_yaml_schema(path).
call_create_datastore_from_yaml_schema ==
    /\ Idle
    /\ ndownloads < MaxDownloads
    /\ op' = "create_datastore_from_yaml_schema"
    /\ pc' = "cd_schema"
    /\ calls' = <<>>
    /\ outcome' = NoOutcome
    /\ ddret' = "none"
    /\ url' = None /\ path' = NoPath /\ f' = None /\ rows' = 0 /\ offset' = 0
    /\ pending' = NoOutcome
    /\ prev' = Progress
    /\ UNCHANGED <<data, files, ndownloads, crud>>

\* The caller invokes create_datastore_for_topline().
call_create_datastore_for_topline ==
    /\ Idle
    /\ ndownloads < MaxDownloads
    /\ op' = "create_datastore_for_topline"
    /\ pc' = "cd_schema"
    /\ calls' = <<>>
    /\ outcome' = NoOutcome
    /\ ddret' = "none"
    /\ url' = None /\ path' = NoPath /\ f' = None /\ rows' = 0 /\ offset' = 0
    /\ pending' = NoOutcome
    /\ prev' = Progress
    /\ UNCHANGED <<data, files, ndownloads, crud>>

\* The caller invokes create_datastore_from_json_schema(path).
call_create_datastore_from_json_schema ==
    /\ Idle
    /\ ndownloads < MaxDownloads
    /\ op' = "create_datastore_from_json_schema"
    /\ pc' = "cd_schema"
    /\ calls' = <<>>
    /\ outcome' = NoOutcome
    /\ ddret' = "none"
    /\ url' = None /\ path' = NoPath /\ f' = None /\ rows' = 0 /\ offset' = 0
    /\ pending' = NoOutcome
    /\ prev' = Progress
    /\ UNCHANGED <<data, files, ndownloads, crud>>

\* Lines 226-227, 240, 249, 262: the schema is loaded and looked up; only
\* then is create_datastore called.
load_schema ==
    /\ pc = "cd_schema"
    /\ \E r \in SchemaLoads(op) :
         IF r = "ok"
         THEN pc' = "cd_download" /\ outcome' = outcome
         ELSE pc' = "done" /\ outcome' = Raise(r, "schema", None, "")
    /\ UNCHANGED <<data, op, calls, ddret, files, ndownloads, url, path, f, rows,
                   offset, pending, crud, prev>>

\* Line 191, url, path = self.download(): lines 174-178.  download_file
\* either raises or creates a new temporary file and returns its path.
download ==
    /\ pc = "cd_download"
    /\ LET u == Get(data, "url") IN
       IF NoUrl(u)
       THEN /\ outcome' = Raise("HDXError", "No URL to download!", None, "")
            /\ pc' = "done"
            /\ UNCHANGED <<url, path, files, ndownloads>>
       ELSE \E ok \in BOOLEAN :
              IF ok
              THEN /\ ndownloads' = ndownloads + 1
                   /\ path' = TmpFile(ndownloads + 1)
                   /\ files' = files \cup {TmpFile(ndownloads + 1)}
                   /\ url' = u
                   /\ pc' = "cd_create"
                   /\ outcome' = outcome
              ELSE /\ outcome' = Raise("DownloadError", "download failed", u, "")
                   /\ pc' = "done"
                   /\ UNCHANGED <<url, path, files, ndownloads>>
    /\ UNCHANGED <<data, op, calls, ddret, f, rows, offset, pending, crud, prev>>

\* Lines 193-194: the datastore_create call, before the try block.
datastore_create ==
    /\ pc = "cd_create"
    /\ IF ~IdLookup(data).found
       THEN /\ outcome' = Raise("KeyError", "id", None, "")
            /\ pc' = "done"
            /\ calls' = calls
       ELSE \E resp \in Responses :
              LET req == datastore_create_data(data) IN
              /\ calls' = Append(calls,
                    Call(actions.datastore_create, None, req.resource_id,
                         req.force, "", 0, 0, resp))
              /\ pc' = AfterCreate(_write_to_hdx(resp))
              /\ outcome' = IF _write_to_hdx(resp) = "ok"
                            THEN outcome
                            ELSE Raise("HDXError",
                                  "Failed when trying to datastore_create", None, "")
    /\ UNCHANGED <<data, op, ddret, files, ndownloads, url, path, f, rows,
                   offset, pending, crud, prev>>

\* Lines 197-201: open the file and parse it into rows.  Opening may fail
\* (f stays None), parsing may fail (f is open), or the file holds n rows.
open_and_parse ==
    /\ pc = "cd_open"
    /\ \E r \in FileContents :
         IF r.kind = "open fails"
         THEN /\ pending' = UploadFailed(url, "OSError")
              /\ pc' = "cd_finally"
              /\ UNCHANGED <<f, rows, offset>>
         ELSE IF r.kind = "parse fails"
         THEN /\ f' = "open"
              /\ pending' = UploadFailed(url, "csv.Error")
              /\ pc' = "cd_finally"
              /\ UNCHANGED <<rows, offset>>
         ELSE /\ f' = "open"
              /\ rows' = r.n
              /\ offset' = StartOffset
              /\ pc' = "cd_loop"
              /\ pending' = pending
    /\ UNCHANGED <<data, op, calls, outcome, ddret, files, ndownloads, url,
                   path, crud, prev>>

\* Lines 203-208: one evaluation of the loop condition and, when it holds,
\* one iteration: the upsert of rows[offset:offset + chunksize].
upload_loop ==
    /\ pc = "cd_loop"
    /\ IF LoopCond(offset, rows)
       THEN \E resp \in Responses :
              LET rowset == PySlice(rows, offset, offset + chunksize)
                  req == datastore_upsert_data(data)
              IN
              /\ calls' = Append(calls,
                    Call(actions.datastore_upsert, None, req.resource_id,
                         req.force, req.method, rowset.lo, rowset.hi, resp))
              /\ IF _write_to_hdx(resp) = "ok"
                 THEN /\ offset' = NextOffset(offset)
                      /\ pc' = "cd_loop"
                      /\ pending' = pending
                 ELSE /\ pending' = UploadFailed(url, "HDXError")
                      /\ pc' = AfterFailedUpsert
                      /\ offset' = offset
       ELSE /\ pc' = "cd_finally"
            /\ UNCHANGED <<calls, offset, pending>>
    /\ UNCHANGED <<data, op, outcome, ddret, files, ndownloads, url, path, f,
                   rows, crud, prev>>

\* Lines 209-214: the finally clause, then the method returns or raises.
finally ==
    /\ pc = "cd_finally"
    /\ files' = Finally(f, path, files)
    /\ f' = IF f # None THEN "closed" ELSE f
    /\ outcome' = MethodEnds(pending)
    /\ pc' = "done"
    /\ UNCHANGED <<data, op, calls, ddret, ndownloads, url, path, rows, offset,
                   pending, crud, prev>>

(***************************************************************************)
(* The datastore operations on one record.                                 *)
(***************************************************************************)
Init ==
    /\ data \in DatastoreRecords
    /\ op = "none"
    /\ pc = "idle"
    /\ calls = <<>>
    /\ outcome = NoOutcome
    /\ ddret = "none"
    /\ files = {}
    /\ ndownloads = 0
    /\ url = None
    /\ path = NoPath
    /\ f = None
    /\ rows = 0
    /\ offset = 0
    /\ pending = NoOutcome
    /\ prev = NoProgress
    /\ objtype = "resource"
    /\ resources = <<>>
    /\ args = NoArg
    /\ before = EmptyRecord
    /\ result = NoResult
    /\ NoSearch
    /\ NoParam

Next ==
    \/ call_delete_datastore
    \/ call_update_datastore
    \/ call_create_datastore
    \/ call_update_datastore_from_yaml_schema
    \/ call_update_datastore_for_topline
    \/ call_update_datastore_from_json_schema
    \/ call_create_datastore_from_dict_schema
    \/ call_create_datastore_from_yaml_schema
    \/ call_create_datastore_for_topline
    \/ call_create_datastore_from_json_schema
    \/ load_schema
    \/ delete_datastore
    \/ download
    \/ datastore_create
    \/ open_and_parse
    \/ upload_loop
    \/ finally

Spec == Init /\ [][Next]_vars

\* The method runs on one thread: while the loop is entered and the remote
\* call of the iteration returns, the next evaluation of the loop happens.
SpecFair == Init /\ [][Next]_vars /\ WF_vars(upload_loop)

(***************************************************************************)
(* Properties of the datastore operations.                                 *)
(***************************************************************************)
IsUpsert(c) == c.action = "datastore_upsert"

Upserts == SelectSeq(calls, IsUpsert)

CreateRan == op \in CreateVariants \cup UpdateVariants

\* ceil(n / d)
Ceil(n, d) == (n + d - 1) \div d

\* C1: when create_datastore returns normally on a file of N data rows, it
\* has issued exactly ceil(N/10000) datastore_upsert calls, the k-th carrying
\* the rows at positions 10000*(k-1) .. min(10000*k, N) - 1, so that every
\* row was sent exactly once.
C1_ChunkedUpload ==
    (CreateRan /\ pc = "done" /\ outcome = Return) =>
        LET sent == Upserts IN
        /\ Len(sent) = Ceil(rows, 10000)
        /\ \A k \in 1..Len(sent) :
              /\ sent[k].lo = 10000 * (k - 1)
              /\ sent[k].hi - 1 = Min(10000 * k, rows) - 1
        /\ \A r \in 0..(rows - 1) :
              Cardinality({k \in 1..Len(sent) :
                              sent[k].lo <= r /\ r < sent[k].hi}) = 1

C1_Witness ==
    /\ op = "create_datastore" /\ pc = "done" /\ outcome = Return
    /\ rows = 2 * 10000 + 1
    /\ Len(Upserts) = 3
    /\ Upserts[3].lo = 20000 /\ Upserts[3].hi = 20001

\* C2: whenever create_datastore has downloaded the resource to a temporary
\* file, that file no longer exists when create_datastore has returned or
\* raised, whichever step failed.
C2_TempFileAlwaysDeleted ==
    (CreateRan /\ pc = "done" /\ path # NoPath) => path \notin files

\* C3: a failed datastore_upsert is the last remote call create_datastore
\* issues, and once the method has ended the temporary file is removed.
C3_FailedBatchStopsUpload ==
    \A i \in 1..Len(calls) :
        (IsUpsert(calls[i]) /\ ~calls[i].resp.success) =>
            /\ i = Len(calls)
            /\ pc \in {"cd_finally", "done"}
            /\ pc = "done" => path \notin files

C3_Witness ==
    /\ pc = "done"
    /\ Len(calls) = 3
    /\ IsUpsert(calls[2]) /\ calls[2].resp.success
    /\ IsUpsert(calls[3]) /\ ~calls[3].resp.success
    /\ calls[3].hi < rows
    /\ path # NoPath /\ path \notin files

\* C4: whatever fails inside the upload (opening or parsing the file, or an
\* upsert), the caller gets one HDXError reporting the upload failure, which
\* names the url and wraps the cause, and says nothing of the batches sent.
C4_SingleUploadFailure ==
    (CreateRan /\ pc = "done" /\ pending # NoOutcome) =>
        /\ outcome.kind = "raise"
        /\ outcome.exc = "HDXError"
        /\ outcome.msg = "Upload to datastore failed"
        /\ outcome.arg = url
        /\ outcome.cause \in {"OSError", "csv.Error", "HDXError"}
        /\ (Len(calls) > 0 /\ IsUpsert(Last(calls)) /\ ~Last(calls).resp.success)
              => outcome = [kind |-> "raise", exc |-> "HDXError",
                            msg |-> "Upload to datastore failed",
                            arg |-> url, cause |-> "HDXError"]

C4_Witness ==
    /\ op = "create_datastore" /\ pc = "done"
    /\ Len(Upserts) = 2
    /\ Upserts[1].resp.success /\ ~Upserts[2].resp.success
    /\ outcome.exc = "HDXError" /\ outcome.msg = "Upload to datastore failed"

IsDelete(c) == c.action = "datastore_delete"

NotFound(resp) == ~resp.success /\ resp.etype = "Not Found Error"

\* C10 as stated: when the datastore_delete call reports failure,
\* delete_datastore does not return normally.
C10_DeleteFailureSurfaced ==
    \A i \in 1..Len(calls) :
        (IsDelete(calls[i]) /\ ~calls[i].resp.success) => ddret # "return"

\* C10 as amended: delete_datastore raises HDXError for the failures that
\* _read_from_hdx raises, and nothing is issued after it; a failure that
\* _read_from_hdx reports as an unsuccessful read (not found) is logged and
\* delete_datastore returns normally, as it does on success.
C10_DeleteFailureAmended ==
    \A i \in 1..Len(calls) :
        IsDelete(calls[i]) =>
            IF calls[i].resp.success \/ NotFound(calls[i].resp)
            THEN ddret = "return"
            ELSE /\ ddret = "HDXError"
                 /\ i = Len(calls)
                 /\ pc = "done"
                 /\ outcome.kind = "raise" /\ outcome.exc = "HDXError"

C10_Witness ==
    /\ op = "update_datastore" /\ pc = "done"
    /\ Len(calls) >= 2
    /\ IsDelete(calls[1]) /\ NotFound(calls[1].resp)
    /\ ddret = "return"
    /\ calls[2].action = "datastore_create"

IsCreate_datastore(c) == c.action = "datastore_create"

\* C11: within one create_datastore, delete_datastore or update_datastore
\* call no remote call is repeated: datastore_delete and datastore_create
\* are issued at most once each and no two upserts carry the same batch,
\* and the call that failed is the last of its kind.
C11_NoRetry ==
    /\ Cardinality({i \in 1..Len(calls) : IsDelete(calls[i])}) <= 1
    /\ Cardinality({i \in 1..Len(calls) : IsCreate_datastore(calls[i])}) <= 1
    /\ \A i, j \in 1..Len(calls) :
          (IsUpsert(calls[i]) /\ IsUpsert(calls[j]) /\ calls[i].lo = calls[j].lo)
              => i = j
    /\ \A i, j \in 1..Len(calls) :
          (~calls[i].resp.success /\ i < j)
              => calls[j].action # calls[i].action

C11_Witness ==
    /\ op = "update_datastore" /\ pc = "done"
    /\ Len(calls) = 4
    /\ IsDelete(calls[1]) /\ NotFound(calls[1].resp)
    /\ IsCreate_datastore(calls[2])
    /\ IsUpsert(calls[3]) /\ calls[3].resp.success
    /\ IsUpsert(calls[4]) /\ ~calls[4].resp.success
    /\ outcome.kind = "raise"

\* The datastore method invoked before the current one was an upload that
\* failed at a batch after the first.
FailedAtLaterBatch ==
    /\ prev.op \in {"create_datastore", "update_datastore"}
    /\ prev.upsert_failed
    /\ prev.offset > 0

\* C12: a create_datastore call that follows a call which failed at batch k
\* starts over: it downloads to a new file, issues datastore_create before
\* any upsert, and its first upsert carries the rows from position 0.
C12_NoResume ==
    (op = "create_datastore" /\ FailedAtLaterBatch) =>
        /\ pc \in {"cd_create", "cd_open", "cd_loop", "cd_finally"} =>
              /\ path = TmpFile(ndownloads)
              /\ path # prev.path
        /\ pc \in {"cd_open", "cd_loop", "cd_finally"} =>
              /\ Len(calls) > 0
              /\ IsCreate_datastore(calls[1])
        /\ (pc = "cd_loop" /\ Upserts = <<>>) => offset = 0
        /\ Upserts # <<>> =>
              /\ Upserts[1].lo = 0
              /\ IsCreate_datastore(calls[1])
              /\ path # prev.path

C12_Witness ==
    /\ op = "create_datastore" /\ pc = "done"
    /\ FailedAtLaterBatch /\ prev.offset = 10000
    /\ rows > 10000
    /\ Len(Upserts) = 2
    /\ Upserts[1].lo = 0 /\ Upserts[2].lo = 10000

\* The record has no url, or an empty one.
UrlMissing == Get(data, "url") \in {None, ""}

\* C13: on a record whose url is absent or empty, create_datastore ends at
\* its download step with HDXError: no remote call is issued, download_file
\* hands back no file, and no step of the call creates or deletes a file.
C13_NoUrlFailsFirst ==
    /\ [](  (op = "create_datastore" /\ UrlMissing) =>
              /\ pc \in {"cd_download", "done"}
              /\ calls = <<>>
              /\ path = NoPath /\ f = None
              /\ pc = "done" =>
                    outcome = Raise("HDXError", "No URL to download!", None, ""))
    /\ [][(op' = "create_datastore" /\ UrlMissing) =>
              (files' = files /\ ndownloads' = ndownloads)]_vars

C13_Witness ==
    /\ op = "create_datastore" /\ pc = "done"
    /\ Get(data, "url") = ""
    /\ "id" \in DOMAIN data
    /\ outcome.kind = "raise" /\ outcome.exc = "HDXError"
    /\ calls = <<>>

\* C14: every datastore_create and datastore_upsert request of
\* create_datastore carries force = True and the record's id as resource_id,
\* and every upsert request carries the method "upsert".
C14_RequestsForced ==
    CreateRan =>
        \A i \in 1..Len(calls) :
            (IsCreate_datastore(calls[i]) \/ IsUpsert(calls[i])) =>
                /\ calls[i].force = TRUE
                /\ calls[i].resource_id = Get(data, "id")
                /\ IsUpsert(calls[i]) => calls[i].method = "upsert"

C14_Witness ==
    /\ op = "create_datastore" /\ pc = "done" /\ outcome = Return
    /\ Len(calls) = 3
    /\ IsCreate_datastore(calls[1]) /\ calls[1].force
    /\ IsUpsert(calls[2]) /\ IsUpsert(calls[3])
    /\ calls[3].method = "upsert" /\ calls[3].resource_id = data["id"]

\* The steps of create_datastore and of the schema loading before it.
CreateSteps == {"cd_schema", "cd_download", "cd_create", "cd_open", "cd_loop",
                "cd_finally"}

\* C24: in every update method (update_datastore and its yaml, json and
\* topline variants) the datastore_delete call is the first remote call and
\* the only one of its kind; the create part starts only after it has been
\* issued and delete_datastore has returned; datastore_create is the second
\* call and every later call is an upsert.
C24_DeleteBeforeCreate ==
    op \in UpdateVariants =>
        /\ \A i \in 1..Len(calls) : IsDelete(calls[i]) <=> i = 1
        /\ pc \in CreateSteps =>
              /\ Len(calls) >= 1
              /\ ddret = "return"
        /\ Len(calls) >= 2 =>
              /\ ddret = "return"
              /\ IsCreate_datastore(calls[2])
        /\ \A i \in 3..Len(calls) : IsUpsert(calls[i])

C24_Witness ==
    /\ op = "update_datastore_from_yaml_schema" /\ pc = "done"
    /\ outcome = Return
    /\ Len(calls) = 4
    /\ IsDelete(calls[1]) /\ calls[1].resp.success
    /\ IsCreate_datastore(calls[2])
    /\ IsUpsert(calls[3]) /\ IsUpsert(calls[4])

\* The datastore_delete of an update method has been issued and
\* delete_datastore has returned: the create part is running or has run.
Deleted ==
    /\ op \in UpdateVariants
    /\ Len(calls) >= 1 /\ IsDelete(calls[1])
    /\ ddret = "return"

\* The create part of the method has failed: the download produced no file,
\* or the last remote call is a datastore_create or an upsert that failed.
CreatePartFailed ==
    /\ pc = "done"
    /\ \/ path = NoPath
       \/ /\ ~IsDelete(Last(calls))
          /\ ~Last(calls).resp.success

\* C25: update_datastore is not atomic.  Once the datastore_delete has been
\* issued, a failure of the create part (download, datastore_create or an
\* upsert batch) ends the method with an exception; the failed call is the
\* last remote call, no second datastore_delete or other compensating call
\* follows the delete, and the upserts sent are a prefix of the batches of
\* the file, all but the last of them successful.
C25_UpdateNotAtomic ==
    Deleted =>
        /\ \A i \in 2..Len(calls) :
              /\ IsCreate_datastore(calls[i]) \/ IsUpsert(calls[i])
              /\ ~calls[i].resp.success => i = Len(calls)
        /\ Len(Upserts) <= Ceil(rows, 10000)
        /\ \A k \in 1..Len(Upserts) :
              /\ Upserts[k].lo = 10000 * (k - 1)
              /\ k < Len(Upserts) => Upserts[k].resp.success
        /\ CreatePartFailed => outcome.kind = "raise"

\* The delete succeeded, the first batch was stored, the second failed: the
\* method raises with the old content gone and one batch of three uploaded.
C25_Witness ==
    /\ op = "update_datastore" /\ pc = "done"
    /\ Deleted /\ calls[1].resp.success
    /\ CreatePartFailed
    /\ rows = 2 * 10000 + 1
    /\ Len(Upserts) = 2
    /\ Upserts[1].resp.success /\ ~Upserts[2].resp.success
    /\ outcome.kind = "raise" /\ outcome.exc = "HDXError"

\* The positions of the datastore_create calls in the log.
Creates == {i \in 1..Len(calls) : IsCreate_datastore(calls[i])}

\* C26: within one create_datastore call (also when an update method or a
\* schema-loading method runs it) datastore_create is issued at most once and,
\* once the method is past that statement, exactly once; it is issued when
\* the download has produced the file, before the file is opened and before
\* every upsert; when it fails the file is never opened, no upsert is issued
\* and the method has ended with HDXError.
C26_CreateOnceBeforeUpload ==
    CreateRan =>
        /\ Cardinality(Creates) <= 1
        /\ pc \in {"cd_open", "cd_loop", "cd_finally"} => Cardinality(Creates) = 1
        /\ (pc = "done" /\ path # NoPath /\ "id" \in DOMAIN data)
              => Cardinality(Creates) = 1
        /\ \A i \in Creates :
              /\ path # NoPath /\ path = TmpFile(ndownloads)
              /\ \A j \in 1..Len(calls) : IsUpsert(calls[j]) => i < j
              /\ ~calls[i].resp.success =>
                    /\ Upserts = <<>>
                    /\ f = None
                    /\ pc = "done"
                    /\ outcome.kind = "raise" /\ outcome.exc = "HDXError"
        /\ (f # None \/ Upserts # <<>>) =>
              \E i \in Creates : calls[i].resp.success

C26_Witness ==
    /\ op = "create_datastore" /\ pc = "done"
    /\ path # NoPath
    /\ Len(calls) = 1
    /\ IsCreate_datastore(calls[1]) /\ ~calls[1].resp.success
    /\ f = None
    /\ outcome.kind = "raise"

\* The downloaded file was opened and parsed without error into no rows: a
\* header line and nothing after it.
ParsedNoRows == f # None /\ rows = 0 /\ pending = NoOutcome

\* C27: when the downloaded file holds a header and no data rows,
\* create_datastore has issued datastore_create and issues no upsert; it
\* returns normally, with the file closed and the temporary file deleted.
C27_EmptyFileNoUpsert ==
    (CreateRan /\ ParsedNoRows) =>
        /\ pc \in {"cd_loop", "cd_finally", "done"}
        /\ Upserts = <<>>
        /\ Cardinality(Creates) = 1
        /\ IsCreate_datastore(Last(calls)) /\ Last(calls).resp.success
        /\ pc = "done" =>
              /\ outcome = Return
              /\ f = "closed"
              /\ path \notin files

C27_Witness ==
    /\ op = "create_datastore" /\ pc = "done"
    /\ ParsedNoRows
    /\ calls # <<>> /\ IsCreate_datastore(Last(calls))
    /\ Upserts = <<>>
    /\ outcome = Return
    /\ path = TmpFile(ndownloads) /\ path \notin files

\* C28: the upload loop of create_datastore terminates.  The offset is 0
\* when the loop is entered and always a multiple of 10000; an iteration
\* happens only while the offset is below the row count N and adds exactly
\* 10000 to it; the loop is left normally at the first multiple of 10000
\* that is at least N; and, each remote call returning, a loop that was
\* entered is left.
C28_UploadLoopTerminates ==
    /\ [](pc = "cd_loop" =>
              /\ offset >= 0 /\ offset % 10000 = 0
              /\ offset <= 10000 * Ceil(rows, 10000))
    /\ [][(pc # "cd_loop" /\ pc' = "cd_loop") => offset' = 0]_vars
    /\ [][(pc = "cd_loop" /\ pc' = "cd_loop") =>
              /\ offset < rows
              /\ offset' = offset + 10000
              /\ rows' = rows
              /\ rows' - offset' < rows - offset]_vars
    /\ [][(pc = "cd_loop" /\ pc' # "cd_loop" /\ pending' = NoOutcome) =>
              /\ offset >= rows
              /\ offset = 10000 * Ceil(rows, 10000)
              /\ offset' = offset]_vars
    /\ (pc = "cd_loop") ~> (pc # "cd_loop")

\* A file of 20001 rows: the loop was left normally at offset 30000 after
\* three iterations.
C28_Witness ==
    /\ op = "create_datastore" /\ pc = "cd_finally"
    /\ pending = NoOutcome
    /\ rows = 2 * 10000 + 1
    /\ offset = 3 * 10000
    /\ Len(Upserts) = 3

\* C29: on a record without an id field, delete_datastore and
\* create_datastore (and the methods built on them) issue no remote
\* datastore call and end with an exception: delete_datastore with the
\* KeyError of its lookup, create_datastore with the error of its download
\* or with the KeyError of line 193, before the file is opened.
C29_NoIdNoRemoteCall ==
    (op # "none" /\ "id" \notin DOMAIN data) =>
        /\ calls = <<>>
        /\ pc \in {"dd", "cd_schema", "cd_download", "cd_create", "done"}
        /\ f = None
        /\ pc = "done" =>
              /\ outcome.kind = "raise"
              /\ (op = "delete_datastore" \/ op \in UpdateVariants)
                    => outcome.exc = "KeyError"
              /\ (op \in CreateVariants /\ path # NoPath)
                    => outcome.exc = "KeyError"

\* create_datastore on a record with a url and no id: the download was
\* made, then the lookup of the id raised.
C29_Witness ==
    /\ op = "create_datastore" /\ pc = "done"
    /\ "id" \notin DOMAIN data
    /\ path # NoPath
    /\ calls = <<>>
    /\ outcome.kind = "raise" /\ outcome.exc = "KeyError"

(***************************************************************************)
(* The generic CRUD methods of a record (HDXObject) and the Resource       *)
(* methods that call them.  Each method is one step.                       *)
(***************************************************************************)
Fields == {"id", "name", "url"}

CrudRecords ==
    {d \in UNION {[flds -> Ids \cup Names \cup Urls] : flds \in SUBSET Fields} :
        IsRecord(d)}

\* d[k] = v
Put(d, k, v) == [x \in DOMAIN d \cup {k} |-> IF x = k THEN v ELSE d[x]]

\* del d[k]
Del(d, k) == [x \in DOMAIN d \ {k} |-> d[x]]

\* merge_two_dictionaries(a, b): b's fields are written over a's.
merge_two_dictionaries(a, b) ==
    [x \in DOMAIN a \cup DOMAIN b |-> IF x \in DOMAIN b THEN b[x] ELSE a[x]]

\* What the remote catalog holds.  An object is found by its id or its name.
Catalog ==
    {[id |-> "res1", name |-> "Resource1", url |-> "http://resource1.csv"]}

Identifiers == Ids \cup Names

Lookup(identifier) ==
    {o \in Catalog : o["id"] = identifier \/ o["name"] = identifier}

ConnectionError == [status |-> 0, success |-> FALSE, etype |-> "ConnectionError"]

NotFoundResponses == {r \in Failures : r.etype = "Not Found Error"}

Reply(resp, res) == [resp |-> resp, result |-> res]

\* The replies the remote can give to a show request.
ShowReplies(identifier) ==
    IF Lookup(identifier) # {}
    THEN {Reply(RespOK, o) : o \in Lookup(identifier)}
            \cup {Reply(ConnectionError, EmptyRecord)}
    ELSE {Reply(r, EmptyRecord) : r \in NotFoundResponses \cup {ConnectionError}}

\* The replies the remote can give to a create, update or delete request:
\* the record it stored, under the id sent or one it assigned, or a failure.
WriteReplies(sent) ==
    {Reply(RespOK, Put(sent, "id", i)) :
        i \in (IF "id" \in DOMAIN sent THEN {sent["id"]} ELSE Ids)}
        \cup {Reply(r, EmptyRecord) : r \in Failures}

dataset_actions ==
    [show |-> "package_show", update |-> "package_update",
     create |-> "package_create", delete |-> "package_delete",
     search |-> "package_search"]

ActionName(t, a) == IF t = "resource" THEN actions[a] ELSE dataset_actions[a]

\* A CRUD request as the log keeps it, with the reply it got.
CrudCall(action, id, reply) ==
    [action |-> action, id |-> id, resource_id |-> None, force |-> FALSE,
     method |-> "", lo |-> 0, hi |-> 0, resp |-> reply.resp,
     result |-> reply.result]

\* The fields the configuration requires of a record of each type.
RequiredFields(t) == IF t = "resource" THEN {"name", "url"} ELSE {"name"}

\* HDXObject._check_required_fields
_check_required_fields(t, d) == \A fld \in RequiredFields(t) : fld \in DOMAIN d

\* Dataset.check_required_fields(allow_no_resources)
Dataset_check_required_fields(d, res, allow_no_resources) ==
    /\ _check_required_fields("dataset", d)
    /\ Len(res) > 0 \/ allow_no_resources

\* A method ends: its effect on the record, the calls it made, its outcome.
Finish(d, cs, out) ==
    /\ data' = d
    /\ calls' = cs
    /\ outcome' = out
    /\ pc' = "done"

\* HDXObject._save_to_hdx: write, then replace self.data by the result.
_save_to_hdx(t, action, d, cs) ==
    \E wr \in WriteReplies(d) :
        LET c == CrudCall(ActionName(t, action), Get(d, "id"), wr) IN
        IF _write_to_hdx(wr.resp) = "ok"
        THEN Finish(wr.result, Append(cs, c), Return)
        ELSE Finish(d, Append(cs, c),
                    Raise("HDXError", "Failed when trying to write", action, ""))

\* HDXObject._merge_hdx_update: the local fields are merged over the loaded
\* ones, the required fields are checked, and the record is updated.
_merge_hdx_update(t, loaded, old, cs) ==
    LET merged == merge_two_dictionaries(loaded, old) IN
    IF ~_check_required_fields(t, merged)
    THEN Finish(merged, cs, Raise("HDXError", "Field is missing", None, ""))
    ELSE _save_to_hdx(t, "update", merged, cs)

\* HDXObject._update_in_hdx(object_type, id_field_name)
_update_in_hdx(t, id_field_name) ==
    IF id_field_name \notin DOMAIN data
    THEN Finish(data, <<>>,
                Raise("HDXError", "No id field (mandatory)", id_field_name, ""))
    ELSE \E sr \in ShowReplies(data[id_field_name]) :
           LET c == CrudCall(ActionName(t, "show"), data[id_field_name], sr)
               r == _read_from_hdx(sr.resp) IN
           IF r = "HDXError"
           THEN Finish(data, <<c>>,
                       Raise("HDXError", "Failed when trying to read", None, ""))
           ELSE IF r = "not_found"
           THEN Finish(data, <<c>>,
                       Raise("HDXError", "No existing object to update", None, ""))
           ELSE _merge_hdx_update(t, sr.result, data, <<c>>)

\* HDXObject._create_in_hdx(object_type, id_field_name, name_field_name):
\* check the required fields; update the object if it exists, else create.
_create_in_hdx(t, id_field_name, name_field_name, required_ok) ==
    IF ~required_ok
    THEN Finish(data, <<>>, Raise("HDXError", "Field is missing", None, ""))
    ELSE IF id_field_name \notin DOMAIN data
    THEN _save_to_hdx(t, "create", data, <<>>)
    ELSE \E sr \in ShowReplies(data[id_field_name]) :
           LET c == CrudCall(ActionName(t, "show"), data[id_field_name], sr)
               r == _read_from_hdx(sr.resp) IN
           IF r = "HDXError"
           THEN Finish(data, <<c>>,
                       Raise("HDXError", "Failed when trying to read", None, ""))
           ELSE IF r = "not_found"
           THEN _save_to_hdx(t, "create", data, <<c>>)
           ELSE _merge_hdx_update(t, sr.result, data, <<c>>)

\* HDXObject._delete_from_hdx(object_type, id_field_name)
_delete_from_hdx(t, id_field_name) ==
    IF id_field_name \notin DOMAIN data
    THEN Finish(data, <<>>,
                Raise("HDXError", "No id field (mandatory)", id_field_name, ""))
    ELSE \E wr \in WriteReplies([id |-> data[id_field_name]]) :
           LET c == CrudCall(ActionName(t, "delete"), data[id_field_name], wr) IN
           IF _write_to_hdx(wr.resp) = "ok"
           THEN Finish(data, <<c>>, Return)
           ELSE Finish(data, <<c>>,
                       Raise("HDXError", "Failed when trying to write", "delete", ""))

\* A method of the record is invoked with the arguments a.
Invoke(name, a) ==
    /\ Idle
    /\ op' = name
    /\ args' = a
    /\ before' = data
    /\ UNCHANGED <<datastore, objtype, resources, paging, assoc>>

\* What read_from_hdx hands back: the new record if the load succeeded,
\* None if not.
read_from_hdx_returns_always(loaded, d) == [kind |-> "Resource", data |-> d]

read_from_hdx_returns(loaded, d) ==
    IF loaded THEN [kind |-> "Resource", data |-> d]
    ELSE [kind |-> "None", data |-> EmptyRecord]

\* HDXObject._load_from_hdx on a new, empty record: the show request, what
\* _read_from_hdx made of the reply, and the record's data afterwards.
_load_from_hdx(t, identifier) ==
    {[call |-> CrudCall(ActionName(t, "show"), identifier, sr),
      read |-> _read_from_hdx(sr.resp),
      data |-> IF _read_from_hdx(sr.resp) = "ok" THEN sr.result ELSE EmptyRecord] :
        sr \in ShowReplies(identifier)}

\* read_from_hdx ends: it raised what the load raised, or returned ret.  The
\* caller goes on with the record it was handed, if it was handed one.
ReadEnds(ld, ret) ==
    IF ld.read = "HDXError"
    THEN /\ Finish(data, <<ld.call>>,
                   Raise("HDXError", "Failed when trying to read", None, ""))
         /\ result' = NoResult
    ELSE /\ Finish(IF ret.kind = "Resource" THEN ret.data ELSE data,
                   <<ld.call>>, Return)
         /\ result' = ret

\* Resource.read_from_hdx(identifier), lines 82-86
Resource_read_from_hdx(identifier) ==
    \E ld \in _load_from_hdx("resource", identifier) :
        ReadEnds(ld, read_from_hdx_returns(ld.read = "ok", ld.data))

\* Resource.update_in_hdx, line 105
Resource_update_in_hdx_by_name == _update_in_hdx("resource", "name")

Resource_update_in_hdx == _update_in_hdx("resource", "id")

\* Resource.create_in_hdx, line 113 (and check_required_fields, line 97)
Resource_create_in_hdx_updates == _update_in_hdx("resource", "id")

Resource_create_in_hdx ==
    _create_in_hdx("resource", "id", "name",
                   _check_required_fields("resource", data))

\* Resource.delete_from_hdx, line 121
Resource_delete_from_hdx_by_name == _delete_from_hdx("resource", "name")

Resource_delete_from_hdx == _delete_from_hdx("resource", "id")

\* The same methods of Dataset.
Dataset_returns(loaded, d) ==
    IF loaded THEN [kind |-> "Resource", data |-> d]
    ELSE [kind |-> "None", data |-> EmptyRecord]

Dataset_read_from_hdx(identifier) ==
    \E ld \in _load_from_hdx("dataset", identifier) :
        ReadEnds(ld, Dataset_returns(ld.read = "ok", ld.data))

Dataset_update_in_hdx == _update_in_hdx("dataset", "id")

Dataset_create_in_hdx(allow_no_resources) ==
    _create_in_hdx("dataset", "id", "name",
                   Dataset_check_required_fields(data, resources,
                                                 allow_no_resources))

Dataset_delete_from_hdx == _delete_from_hdx("dataset", "id")

(***************************************************************************)
(* The calls a user of the record makes.                                   *)
(***************************************************************************)
read_from_hdx ==
    \E identifier \in Identifiers :
        /\ Invoke("read_from_hdx", [NoArg EXCEPT !.identifier = identifier])
        /\ IF objtype = "resource"
           THEN Resource_read_from_hdx(identifier)
           ELSE Dataset_read_from_hdx(identifier)

update_in_hdx ==
    /\ Invoke("update_in_hdx", NoArg)
    /\ result' = result
    /\ IF objtype = "resource"
       THEN Resource_update_in_hdx
       ELSE Dataset_update_in_hdx

create_in_hdx ==
    \E allow \in (IF objtype = "dataset" THEN BOOLEAN ELSE {FALSE}) :
        /\ Invoke("create_in_hdx", [NoArg EXCEPT !.allow_no_resources = allow])
        /\ result' = result
        /\ IF objtype = "resource"
           THEN Resource_create_in_hdx
           ELSE Dataset_create_in_hdx(allow)

delete_from_hdx ==
    /\ Invoke("delete_from_hdx", NoArg)
    /\ result' = result
    /\ IF objtype = "resource"
       THEN Resource_delete_from_hdx
       ELSE Dataset_delete_from_hdx

\* record[field] = value
setitem ==
    \E k \in Fields, v \in Ids \cup Names \cup Urls :
        /\ IsRecord(Put(data, k, v))
        /\ Invoke("setitem", [NoArg EXCEPT !.field = k])
        /\ result' = result
        /\ Finish(Put(data, k, v), <<>>, Return)

\* del record[field]
delitem ==
    \E k \in DOMAIN data :
        /\ Invoke("delitem", [NoArg EXCEPT !.field = k])
        /\ result' = result
        /\ Finish(Del(data, k), <<>>, Return)

InitCrud ==
    /\ data \in CrudRecords
    /\ objtype \in {"resource", "dataset"}
    /\ resources \in (IF objtype = "dataset"
                      THEN {<<>>, <<[id |-> "res1", description |-> "Resource1"]>>}
                      ELSE {<<>>})
    /\ op = "none"
    /\ pc = "idle"
    /\ calls = <<>>
    /\ outcome = NoOutcome
    /\ ddret = "none"
    /\ files = {}
    /\ ndownloads = 0
    /\ url = None
    /\ path = NoPath
    /\ f = None
    /\ rows = 0
    /\ offset = 0
    /\ pending = NoOutcome
    /\ prev = NoProgress
    /\ args = NoArg
    /\ before = EmptyRecord
    /\ result = NoResult
    /\ NoSearch
    /\ NoParam

NextCrud ==
    \/ read_from_hdx
    \/ update_in_hdx
    \/ create_in_hdx
    \/ delete_from_hdx
    \/ setitem
    \/ delitem

SpecCrud == InitCrud /\ [][NextCrud]_vars

(***************************************************************************)
(* Properties of the CRUD methods.                                         *)
(***************************************************************************)
Raised(exc) == outcome.kind = "raise" /\ outcome.exc = exc

\* C5: update_in_hdx on a record without an id field fails with HDXError and
\* has issued no remote call.
C5_UpdateWithoutIdFailsLocally ==
    (op = "update_in_hdx" /\ pc = "done" /\ "id" \notin DOMAIN before) =>
        /\ Raised("HDXError")
        /\ calls = <<>>

C5_Witness ==
    /\ op = "update_in_hdx" /\ pc = "done" /\ objtype = "resource"
    /\ "id" \notin DOMAIN before
    /\ "name" \in DOMAIN before /\ Lookup(before["name"]) # {}
    /\ Raised("HDXError")
    /\ calls = <<>>

\* C6: delete_from_hdx on a record with an id issues the delete action of
\* its type for that id and nothing else; on a record without id it fails
\* with HDXError and issues nothing.
C6_DeleteRequiresId ==
    (op = "delete_from_hdx" /\ pc = "done") =>
        IF "id" \in DOMAIN before
        THEN /\ Len(calls) = 1
             /\ calls[1].action =
                  (IF objtype = "resource" THEN "resource_delete"
                   ELSE "package_delete")
             /\ calls[1].id = before["id"]
        ELSE /\ Raised("HDXError")
             /\ calls = <<>>

C6_Witness ==
    /\ op = "delete_from_hdx" /\ pc = "done" /\ objtype = "resource"
    /\ "id" \notin DOMAIN before
    /\ "name" \in DOMAIN before
    /\ Raised("HDXError")
    /\ calls = <<>>

\* C7: read_from_hdx with an identifier the remote knows returns a record
\* holding the remote's result, whose id is the remote object's id; with an
\* identifier the remote answers by HTTP 404 or by HTTP 200 success:false,
\* it returns None and does not raise.
C7_ReadKnownAndUnknown ==
    (op = "read_from_hdx" /\ pc = "done") =>
        /\ Len(calls) = 1
        /\ calls[1].id = args.identifier
        /\ (Lookup(args.identifier) # {} /\ calls[1].resp.success) =>
              /\ outcome = Return
              /\ result.kind = "Resource"
              /\ result.data = calls[1].result
              /\ \E o \in Lookup(args.identifier) : result.data["id"] = o["id"]
        /\ (/\ Lookup(args.identifier) = {}
            /\ \/ calls[1].resp.status = 404
               \/ calls[1].resp.status = 200 /\ ~calls[1].resp.success) =>
              /\ outcome = Return
              /\ result.kind = "None"

C7_Witness ==
    /\ op = "read_from_hdx" /\ pc = "done" /\ objtype = "resource"
    /\ args.identifier = "Resource1"
    /\ outcome = Return
    /\ result.kind = "Resource"
    /\ result.data["id"] = "res1"

\* The record had the fields create_in_hdx requires when it was invoked.
HadRequiredFields ==
    IF objtype = "resource"
    THEN {"name", "url"} \subseteq DOMAIN before
    ELSE /\ "name" \in DOMAIN before
         /\ Len(resources) > 0 \/ args.allow_no_resources

NoRemoteIdentity == "id" \notin DOMAIN before \/ Lookup(before["id"]) = {}

IsShow(c) == c.action \in {"resource_show", "package_show"}

IsCreate(c) == c.action \in {"resource_create", "package_create"}

IsUpdate(c) == c.action \in {"resource_update", "package_update"}

\* C8: create_in_hdx on a record with no remote identity fails with HDXError
\* when required fields are missing (for a dataset: also when it has no
\* resources and allow_no_resources is not set); with them, and the remote
\* accepting the create, it returns and the record's id is the id of the
\* create response.
C8_CreateRequiresFields ==
    (op = "create_in_hdx" /\ pc = "done" /\ NoRemoteIdentity) =>
        /\ ~HadRequiredFields =>
              /\ Raised("HDXError")
              /\ calls = <<>>
        /\ (/\ HadRequiredFields
            /\ \A i \in 1..Len(calls) :
                  \/ calls[i].resp.success
                  \/ IsShow(calls[i]) /\ NotFound(calls[i].resp)) =>
              /\ outcome = Return
              /\ Len(calls) > 0
              /\ IsCreate(Last(calls))
              /\ "id" \in DOMAIN data
              /\ data["id"] = Last(calls).result["id"]

C8_Witness ==
    /\ op = "create_in_hdx" /\ pc = "done" /\ objtype = "resource"
    /\ "id" \notin DOMAIN before
    /\ HadRequiredFields
    /\ outcome = Return
    /\ IsCreate(Last(calls))
    /\ data["id"] = Last(calls).result["id"]

\* C9: when the remote reports failure for the create or update request, by
\* an HTTP error status or by HTTP 200 with success:false, create_in_hdx and
\* update_in_hdx raise HDXError.
C9_RemoteFailureRaises ==
    (op \in {"create_in_hdx", "update_in_hdx"} /\ pc = "done") =>
        \A i \in 1..Len(calls) :
            (/\ IsCreate(calls[i]) \/ IsUpdate(calls[i])
             /\ \/ calls[i].resp.status # 200
                \/ ~calls[i].resp.success) =>
                /\ Raised("HDXError")
                /\ i = Len(calls)

C9_Witness ==
    /\ op = "update_in_hdx" /\ pc = "done"
    /\ Len(calls) = 2
    /\ IsUpdate(calls[2])
    /\ calls[2].resp.status = 200 /\ ~calls[2].resp.success
    /\ Raised("HDXError")

(***************************************************************************)
(* Searching: Resource.search_in_hdx (one request) and                     *)
(* Dataset.search_in_hdx (paged).  Both are static methods.  The objects   *)
(* the remote holds for a query are numbered 1 .. matches.                 *)
(***************************************************************************)
\* The reply to one search request: the response and, when it succeeded,
\* its result {'count': ..., 'results': [...]}.
SearchReply(resp, has_count, count, results) ==
    [resp |-> resp, has_count |-> has_count, count |-> count,
     results |-> results]

\* The objects at positions s .. s+n-1 of the m objects that match.
Page(m, s, n) ==
    LET hi == Min(s + n, m) IN
    IF hi <= s THEN <<>> ELSE [i \in 1..(hi - s) |-> s + i]

\* What the remote may answer to resource_search: any count with any
\* results, a result without count, or a failure.
ResourceSearchReplies ==
    {SearchReply(RespOK, TRUE, c, rs) : c \in 0..2, rs \in {<<>>, <<1>>, <<1, 2>>}}
        \cup {SearchReply(RespOK, FALSE, 0, rs) : rs \in {<<>>, <<1>>}}
        \cup {SearchReply(r, FALSE, 0, <<>>) : r \in Failures}

\* Lines 141-146: the results are taken only when the count is truthy.
Resource_search_results_whatever_count(reply) == reply.results

Resource_search_results(reply) ==
    IF reply.has_count /\ reply.count # 0 THEN reply.results ELSE <<>>

\* How Resource.search_in_hdx ends.  _read_from_hdx raises HDXError; on an
\* ordinary not-found it hands back (False, result), and line 140 tests that
\* result: a falsy one is logged, a truthy one that is no dict has no get().
Resource_search_ends_nothing_raises(r, truthy, reply) ==
    IF r = "HDXError" \/ (r = "ok" /\ reply.count = 0)
    THEN Raise("HDXError", "Failed when trying to read", "query", "")
    ELSE Return

Resource_search_ends(r, truthy, reply) ==
    IF r = "HDXError"
    THEN Raise("HDXError", "Failed when trying to read", "query", "")
    ELSE IF r = "not_found" /\ truthy
    THEN Raise("AttributeError", "get", None, "")
    ELSE Return

\* Resource.search_in_hdx(configuration, query), lines 138-149.
Resource_search_in_hdx ==
    /\ Idle
    /\ op' = "Resource.search_in_hdx"
    /\ pc' = "done"
    /\ \E reply \in ResourceSearchReplies, truthy \in BOOLEAN :
         LET r == _read_from_hdx(reply.resp) IN
         /\ pages' = <<[start |-> 0, rows |-> 0, reply |-> reply]>>
         /\ found' = IF r = "ok" THEN Resource_search_results(reply) ELSE <<>>
         /\ outcome' = Resource_search_ends(r, truthy, reply)
    /\ kwargs' = NoKwargs
    /\ start' = 0
    /\ counts' = {}
    /\ UNCHANGED <<data, calls, datastore, objtype, resources, args, before,
                   result, page_size, matches, assoc>>

\* The rows option exceeds the configured ceiling.
TooManyRows_never(kw, ps) == FALSE

TooManyRows(kw, ps) == kw.rows_given /\ kw.rows > ps

\* The number of rows one request asks for.
RequestedRows(kw, ps) == IF kw.rows_given THEN kw.rows ELSE ps

\* The offset of the request after the one at offset s.
NextStart_same(s, ps) == s

NextStart(s, ps) == s + ps

\* The remote-reported count is exhausted, or the page came back empty.
LastPage(fnd, count, results) == Len(fnd) >= count \/ results = <<>>

\* How a paged search ends: the objects gathered must be as many as every
\* count the remote reported.
SearchEnds_lenient(fnd, cs) == Return

SearchEnds(fnd, cs) ==
    IF \E c \in cs : Len(fnd) # c
    THEN Raise("HDXError", "search", "count", "")
    ELSE Return

\* What the remote may answer to package_search for the rows s .. s+n-1 of
\* m matches: the page with the count, the page with one row too many, the
\* page with another count, or a failure.
DatasetSearchReplies(m, s, n) ==
    {SearchReply(RespOK, TRUE, m, Page(m, s, n))}
        \cup (IF m > 0
              THEN {SearchReply(RespOK, TRUE, m, Page(m, s, n) \o <<1>>),
                    SearchReply(RespOK, TRUE, m + 1, Page(m, s, n))}
              ELSE {})
        \cup {SearchReply(r, FALSE, 0, <<>>) : r \in Failures}

\* The options a search is invoked with: no rows, or rows up to one more
\* than the largest page size.
SearchKwargs ==
    {NoKwargs} \cup {[rows_given |-> TRUE, rows |-> n] : n \in 1..(MaxPageSize + 1)}

\* The caller invokes Dataset.search_in_hdx(query, **kwargs): the query is
\* one with m matches.
Dataset_search_in_hdx ==
    /\ Idle
    /\ \E kw \in SearchKwargs, m \in 0..MaxMatches :
         /\ kwargs' = kw
         /\ matches' = m
         /\ IF TooManyRows(kw, page_size)
            THEN /\ pc' = "done"
                 /\ outcome' = Raise("HDXError", "search", "rows", "")
            ELSE /\ pc' = "search_page"
                 /\ outcome' = NoOutcome
    /\ op' = "Dataset.search_in_hdx"
    /\ start' = 0
    /\ found' = <<>>
    /\ counts' = {}
    /\ pages' = <<>>
    /\ UNCHANGED <<data, calls, datastore, objtype, resources, args, before,
                   result, page_size, assoc>>

\* One request of the paged search and what is done with its reply.
search_page ==
    /\ pc = "search_page"
    /\ LET n == RequestedRows(kwargs, page_size) IN
       \E reply \in DatasetSearchReplies(matches, start, n) :
         LET r == _read_from_hdx(reply.resp)
             fnd == found \o reply.results
             cs == counts \cup {reply.count}
         IN
         /\ pages' = Append(pages, [start |-> start, rows |-> n, reply |-> reply])
         /\ IF r = "HDXError"
            THEN /\ outcome' = Raise("HDXError", "Failed when trying to read",
                                     "q", "")
                 /\ pc' = "done"
                 /\ UNCHANGED <<found, counts, start>>
            ELSE IF r = "not_found" \/ reply.count = 0
            THEN /\ outcome' = SearchEnds(found, counts)
                 /\ pc' = "done"
                 /\ UNCHANGED <<found, counts, start>>
            ELSE /\ found' = fnd
                 /\ counts' = cs
                 /\ IF LastPage(fnd, reply.count, reply.results)
                    THEN /\ outcome' = SearchEnds(fnd, cs)
                         /\ pc' = "done"
                         /\ start' = start
                    ELSE /\ outcome' = outcome
                         /\ pc' = "search_page"
                         /\ start' = NextStart(start, page_size)
    /\ UNCHANGED <<data, op, calls, datastore, objtype, resources, args, before,
                   result, page_size, matches, kwargs, assoc>>

InitSearch ==
    /\ data = EmptyRecord
    /\ objtype = "dataset"
    /\ resources = <<>>
    /\ op = "none"
    /\ pc = "idle"
    /\ calls = <<>>
    /\ outcome = NoOutcome
    /\ ddret = "none"
    /\ files = {}
    /\ ndownloads = 0
    /\ url = None
    /\ path = NoPath
    /\ f = None
    /\ rows = 0
    /\ offset = 0
    /\ pending = NoOutcome
    /\ prev = NoProgress
    /\ args = NoArg
    /\ before = EmptyRecord
    /\ result = NoResult
    /\ page_size \in 1..MaxPageSize
    /\ matches = 0
    /\ kwargs = NoKwargs
    /\ start = 0
    /\ found = <<>>
    /\ counts = {}
    /\ pages = <<>>
    /\ NoParam

NextSearch ==
    \/ Resource_search_in_hdx
    \/ Dataset_search_in_hdx
    \/ search_page

SpecSearch == InitSearch /\ [][NextSearch]_vars

(***************************************************************************)
(* Properties of the searches.                                             *)
(***************************************************************************)
DatasetSearch == op = "Dataset.search_in_hdx"

\* The page got a result from the remote.
Answered(pg) == pg.reply.resp.success

\* The results of the pages ps, one after the other.
RECURSIVE Gathered(_)
Gathered(ps) ==
    IF ps = <<>> THEN <<>>
    ELSE Gathered(SubSeq(ps, 1, Len(ps) - 1)) \o Last(ps).reply.results

\* C15: a dataset search given more rows than the configured page size has
\* ended with HDXError and has gathered nothing.
C15_TooManyRowsFails ==
    (DatasetSearch /\ kwargs.rows_given /\ kwargs.rows > page_size) =>
        /\ pc = "done"
        /\ Raised("HDXError")
        /\ found = <<>>

C15_Witness ==
    /\ DatasetSearch /\ pc = "done"
    /\ page_size = 2 /\ kwargs.rows_given /\ kwargs.rows = 3
    /\ matches = 3
    /\ Raised("HDXError")

ContractViolated ==
    \/ \E i \in 1..Len(pages) :
          /\ Answered(pages[i])
          /\ pages[i].reply.count # Len(Gathered(pages))
    \/ \E i, j \in 1..Len(pages) :
          /\ Answered(pages[i]) /\ Answered(pages[j])
          /\ pages[i].reply.count # pages[j].reply.count

\* C17: a dataset search during which the remote broke the paging contract
\* ends with HDXError.
C17_ContractViolationFails ==
    (DatasetSearch /\ pc = "done" /\ ContractViolated) => Raised("HDXError")

C17_Witness ==
    /\ DatasetSearch /\ pc = "done" /\ Raised("HDXError")
    /\ Len(pages) = 1
    /\ Answered(pages[1])
    /\ pages[1].reply.count = 1
    /\ pages[1].reply.results = <<1, 1>>

\* C18: a search, of resources or of datasets, that the remote answered
\* with success, count 0 and no results returns the empty list.
C18_NothingFoundReturnsEmpty ==
    (op \in {"Resource.search_in_hdx", "Dataset.search_in_hdx"} /\ pc = "done"
        /\ Len(pages) = 1
        /\ Answered(pages[1])
        /\ pages[1].reply.has_count /\ pages[1].reply.count = 0
        /\ pages[1].reply.results = <<>>) =>
        /\ outcome = Return
        /\ found = <<>>

C18_Witness ==
    /\ op = "Resource.search_in_hdx" /\ pc = "done"
    /\ Len(pages) = 1
    /\ Answered(pages[1])
    /\ pages[1].reply.has_count /\ pages[1].reply.count = 0
    /\ pages[1].reply.results = <<>>
    /\ outcome = Return /\ found = <<>>

\* C30: Resource.search_in_hdx, when the remote answered with a result,
\* returns the elements of the result's results list, one Resource for each
\* and in the same order, if the reported count is not zero; if the count is
\* zero or the result has no count it returns the empty list, whatever the
\* results list holds.
C30_ResourceSearchResults ==
    (op = "Resource.search_in_hdx" /\ pc = "done" /\ Answered(pages[1])) =>
        /\ outcome = Return
        /\ IF pages[1].reply.has_count /\ pages[1].reply.count # 0
           THEN /\ Len(found) = Len(pages[1].reply.results)
                /\ \A i \in 1..Len(found) : found[i] = pages[1].reply.results[i]
           ELSE found = <<>>

\* The remote reported no count and sent one result: nothing is returned.
C30_Witness ==
    /\ op = "Resource.search_in_hdx" /\ pc = "done"
    /\ Answered(pages[1])
    /\ ~pages[1].reply.has_count
    /\ pages[1].reply.results = <<1>>
    /\ found = <<>>
    /\ outcome = Return

\* The remote reported a count and sent two results: both are returned, in
\* the order sent.
C30_WitnessFound ==
    /\ op = "Resource.search_in_hdx" /\ pc = "done"
    /\ Answered(pages[1])
    /\ pages[1].reply.has_count /\ pages[1].reply.count = 1
    /\ pages[1].reply.results = <<1, 2>>
    /\ found = <<1, 2>>

(***************************************************************************)
(* The methods of a dataset that take an object: its resource list         *)
(* (add_update_resource, add_update_resources, delete_resource), its       *)
(* maintainer and organization, and its showcases.  Each method is one     *)
(* step.  A resource is matched by its id.                                 *)
(***************************************************************************)
Descriptions == {"Resource1", "Resource2"}

\* A package_id that is not the id of the dataset.
OtherPackage == "123"

DatasetIds == {"dataset123"}

\* The resource records handed to the dataset: with or without id, with or
\* without the package_id of another dataset.
ResourceDicts ==
    {d \in UNION {[flds -> Ids \cup Descriptions \cup {OtherPackage}] :
                    flds \in SUBSET {"id", "description", "package_id"}} :
        /\ "description" \in DOMAIN d /\ d["description"] \in Descriptions
        /\ "id" \in DOMAIN d => d["id"] \in Ids
        /\ "package_id" \in DOMAIN d => d["package_id"] = OtherPackage}

RecordParam(d) == Param("record", d, None, <<>>)

IdentifierParam(i) == Param("identifier", EmptyRecord, i, <<>>)

\* Neither a record nor an identifier, such as the integer 123.
OtherParam == Param("other", EmptyRecord, None, <<>>)

ListParam(l) == Param("list", EmptyRecord, None, l)

ResourceParams ==
    {RecordParam(d) : d \in ResourceDicts}
        \cup {IdentifierParam(i) : i \in {"res1", "NOTEXIST"}}
        \cup {OtherParam}

\* The elements of the lists handed to add_update_resources.
ListElems ==
    {RecordParam(d) : d \in {r \in ResourceDicts :
        /\ "id" \in DOMAIN r
        /\ r["description"] = (IF r["id"] = "res1" THEN "Resource1"
                               ELSE "Resource2")}}
        \cup {OtherParam}

ListParams ==
    {ListParam(<<>>)}
        \cup {ListParam(<<a>>) : a \in ListElems}
        \cup {ListParam(<<a, b>>) : a \in ListElems, b \in ListElems}
        \cup {OtherParam}

\* A user, organization or showcase given as a record, as an identifier,
\* or something that is neither.
ObjectParams(id) == {RecordParam([id |-> id]), IdentifierParam(id), OtherParam}

\* The object is a resource record that does not belong to another dataset.
Accepts(p, d) ==
    /\ p.kind = "record"
    /\ "package_id" \in DOMAIN p.rec => p.rec["package_id"] = Get(d, "id")

\* The positions of the resources with the id i.
Hits(res, i) == {k \in 1..Len(res) : Get(res[k], "id") = i}

\* Add the resource r, or update the resource that has its id.
AddUpdate_appends(res, r) == Append(res, r)

AddUpdate(res, r) ==
    IF "id" \in DOMAIN r /\ Hits(res, r["id"]) # {}
    THEN LET k == CHOOSE k \in Hits(res, r["id"]) :
                      \A j \in Hits(res, r["id"]) : k <= j
         IN [res EXCEPT ![k] = merge_two_dictionaries(res[k], r)]
    ELSE Append(res, r)

\* Add or update the resources of the list l, in order.
RECURSIVE AddUpdateAll(_, _)
AddUpdateAll(res, l) ==
    IF l = <<>> THEN res
    ELSE AddUpdateAll(AddUpdate(res, Head(l).rec), Tail(l))

\* The resource list after add_update_resources(l): the list is changed
\* only when every element is accepted.
ResourcesAfter_keeps_prefix(res, d, l) ==
    LET bad == {k \in 1..Len(l) : ~Accepts(l[k], d)}
        n == IF bad = {} THEN Len(l)
             ELSE (CHOOSE k \in bad : \A j \in bad : k <= j) - 1
    IN AddUpdateAll(res, SubSeq(l, 1, n))

ResourcesAfter(res, d, l) ==
    IF \A k \in 1..Len(l) : Accepts(l[k], d) THEN AddUpdateAll(res, l) ELSE res

\* The list without its k-th resource.
Remove(res, k) == SubSeq(res, 1, k - 1) \o SubSeq(res, k + 1, Len(res))

\* A method of the dataset is invoked with the object p.
InvokeDataset(name, p) ==
    /\ Idle
    /\ objtype = "dataset"
    /\ op' = name
    /\ pc' = "done"
    /\ param' = p
    /\ resources_before' = resources
    /\ before' = data
    /\ UNCHANGED <<datastore, objtype, args, result, paging>>

WrongType == Raise("HDXError", "Type cannot be added", None, "")

\* Dataset.add_update_resource(resource): a record is added or updates the
\* resource with its id; an identifier is first read from the remote.
add_update_resource ==
    \E p \in ResourceParams :
        /\ InvokeDataset("add_update_resource", p)
        /\ IF p.kind = "identifier"
           THEN \E reply \in ShowReplies(p.id) :
                  /\ calls' = <<CrudCall(actions.show, p.id, reply)>>
                  /\ IF reply.resp.success
                     THEN /\ resources' = AddUpdate(resources, reply.result)
                          /\ outcome' = Return
                     ELSE /\ resources' = resources
                          /\ outcome' = WrongType
           ELSE /\ calls' = <<>>
                /\ IF Accepts(p, data)
                   THEN /\ resources' = AddUpdate(resources, p.rec)
                        /\ outcome' = Return
                   ELSE /\ resources' = resources
                        /\ outcome' = WrongType
        /\ Len(resources') <= MaxResources
        /\ UNCHANGED <<data, showcases>>

\* Dataset.add_update_resources(resources)
add_update_resources ==
    \E p \in ListParams :
        /\ InvokeDataset("add_update_resources", p)
        /\ calls' = <<>>
        /\ IF p.kind = "list"
           THEN /\ resources' = ResourcesAfter(resources, data, p.list)
                /\ outcome' = IF \A k \in 1..Len(p.list) : Accepts(p.list[k], data)
                              THEN Return ELSE WrongType
           ELSE /\ resources' = resources
                /\ outcome' = WrongType
        /\ Len(resources') <= MaxResources
        /\ UNCHANGED <<data, showcases>>

\* Dataset.delete_resource(identifier): the resource with that id, if the
\* dataset has one, is deleted on the remote and taken out of the list.
delete_resource ==
    \E i \in Ids \cup {"NOTEXIST"} :
        /\ InvokeDataset("delete_resource", IdentifierParam(i))
        /\ IF Hits(resources, i) = {}
           THEN /\ calls' = <<>>
                /\ resources' = resources
                /\ outcome' = Return
           ELSE \E reply \in WriteReplies([id |-> i]) :
                  LET k == CHOOSE k \in Hits(resources, i) : TRUE IN
                  /\ calls' = <<CrudCall(actions.delete, i, reply)>>
                  /\ IF _write_to_hdx(reply.resp) = "ok"
                     THEN /\ resources' = Remove(resources, k)
                          /\ outcome' = Return
                     ELSE /\ resources' = resources
                          /\ outcome' = Raise("HDXError",
                                "Failed when trying to write", "delete", "")
        /\ UNCHANGED <<data, showcases>>

\* The id of the object p stands for.
IdOf(p) == IF p.kind = "record" THEN p.rec["id"] ELSE p.id

\* The record after the field was set to the id of the object p, and how
\* the method that sets it ends.
SetField(d, field, p) ==
    IF p.kind = "other" THEN d ELSE Put(d, field, IdOf(p))

SetFieldEnds(p) == IF p.kind = "other" THEN WrongType ELSE Return

\* Dataset.set_maintainer(maintainer)
set_maintainer ==
    \E p \in ObjectParams("user1") :
        /\ InvokeDataset("set_maintainer", p)
        /\ calls' = <<>>
        /\ data' = SetField(data, "maintainer", p)
        /\ outcome' = SetFieldEnds(p)
        /\ UNCHANGED <<resources, showcases>>

\* Dataset.set_organization(organization)
set_organization ==
    \E p \in ObjectParams("org1") :
        /\ InvokeDataset("set_organization", p)
        /\ calls' = <<>>
        /\ data' = SetField(data, "owner_org", p)
        /\ outcome' = SetFieldEnds(p)
        /\ UNCHANGED <<resources, showcases>>

\* Dataset.add_showcase(showcase): a showcase that is not yet associated to
\* the dataset is associated by a remote call.
add_showcase ==
    \E p \in ObjectParams("showcase1") :
        /\ InvokeDataset("add_showcase", p)
        /\ IF p.kind = "other"
           THEN /\ calls' = <<>>
                /\ showcases' = showcases
                /\ outcome' = WrongType
           ELSE IF IdOf(p) \in showcases
           THEN /\ calls' = <<>>
                /\ showcases' = showcases
                /\ outcome' = Return
           ELSE \E reply \in WriteReplies([id |-> IdOf(p)]) :
                  /\ calls' = <<CrudCall("ckanext_showcase_package_association_create",
                                         IdOf(p), reply)>>
                  /\ IF _write_to_hdx(reply.resp) = "ok"
                     THEN showcases' = showcases \cup {IdOf(p)} /\ outcome' = Return
                     ELSE /\ showcases' = showcases
                          /\ outcome' = Raise("HDXError",
                                "Failed when trying to write", "associate", "")
        /\ UNCHANGED <<data, resources>>

InitDataset ==
    /\ data \in {[name |-> "MyDataset1", id |-> i] : i \in DatasetIds}
    /\ objtype = "dataset"
    /\ resources = <<>>
    /\ op = "none"
    /\ pc = "idle"
    /\ calls = <<>>
    /\ outcome = NoOutcome
    /\ ddret = "none"
    /\ files = {}
    /\ ndownloads = 0
    /\ url = None
    /\ path = NoPath
    /\ f = None
    /\ rows = 0
    /\ offset = 0
    /\ pending = NoOutcome
    /\ prev = NoProgress
    /\ args = NoArg
    /\ before = EmptyRecord
    /\ result = NoResult
    /\ NoSearch
    /\ NoParam

NextDataset ==
    \/ add_update_resource
    \/ add_update_resources
    \/ delete_resource
    \/ set_maintainer
    \/ set_organization
    \/ add_showcase

SpecDataset == InitDataset /\ [][NextDataset]_vars

(***************************************************************************)
(* Properties of the dataset's resource list.                              *)
(***************************************************************************)
\* The ids of the resources of the list res that have one.
IdsOf(res) == {res[k]["id"] : k \in {j \in 1..Len(res) : "id" \in DOMAIN res[j]}}

Rejected ==
    \/ param.kind = "other"
    \/ /\ op = "add_update_resource" /\ param.kind = "record"
       /\ "package_id" \in DOMAIN param.rec
       /\ param.rec["package_id"] # Get(before, "id")
    \/ /\ op = "add_update_resources" /\ param.kind = "list"
       /\ \E k \in 1..Len(param.list) :
             \/ param.list[k].kind = "other"
             \/ /\ "package_id" \in DOMAIN param.list[k].rec
                /\ param.list[k].rec["package_id"] # Get(before, "id")

TagNames == {"conflict", "LALA", "ABC"}

Tag(n) == [name |-> n]

\* The lists of at most n elements of the set S.
ListsOf(S, n) == UNION {[1..k -> S] : k \in 0..n}

\* dataset['tags'], or the empty list when the dataset has no such field.
TagsOf(d) == IF "tags" \in DOMAIN d THEN d["tags"] ELSE <<>>

\* Dataset.get_tags(): the names of the tags, in the order of the field.
get_tags(d) == [i \in 1..Len(TagsOf(d)) |-> TagsOf(d)[i]["name"]]

\* The elements of a list.
Elems(l) == {l[i] : i \in 1..Len(l)}

\* The record after add_tag(n): a name the dataset has is not added again.
AddTag_appends(d, n) == Put(d, "tags", Append(TagsOf(d), Tag(n)))

AddTag(d, n) ==
    IF n \in Elems(get_tags(d))
    THEN d
    ELSE Put(d, "tags", Append(TagsOf(d), Tag(n)))

\* The record after add_tags(ns): add_tag for each name in turn.
RECURSIVE AddTags(_, _)
AddTags(d, ns) ==
    IF ns = <<>> THEN d ELSE AddTags(AddTag(d, Head(ns)), Tail(ns))

\* The record after remove_tag(n).
RemoveTag(d, n) ==
    IF "tags" \in DOMAIN d
    THEN Put(d, "tags", SelectSeq(d["tags"], LAMBDA t : t["name"] # n))
    ELSE d

\* Dataset.add_tag(tag)
add_tag ==
    \E n \in TagNames :
        /\ Idle
        /\ objtype = "dataset"
        /\ op' = "add_tag"
        /\ pc' = "done"
        /\ param' = Param("name", EmptyRecord, n, <<>>)
        /\ before' = data
        /\ data' = AddTag(data, n)
        /\ outcome' = Return
        /\ UNCHANGED <<calls, datastore, objtype, resources, args, result,
                       paging, resources_before, showcases>>

\* Dataset.add_tags(tags)
add_tags ==
    \E ns \in ListsOf(TagNames, 3) :
        /\ Idle
        /\ objtype = "dataset"
        /\ op' = "add_tags"
        /\ pc' = "done"
        /\ param' = Param("names", EmptyRecord, None, ns)
        /\ before' = data
        /\ data' = AddTags(data, ns)
        /\ outcome' = Return
        /\ UNCHANGED <<calls, datastore, objtype, resources, args, result,
                       paging, resources_before, showcases>>

\* Dataset.remove_tag(tag)
remove_tag ==
    \E n \in TagNames :
        /\ Idle
        /\ objtype = "dataset"
        /\ op' = "remove_tag"
        /\ pc' = "done"
        /\ param' = Param("name", EmptyRecord, n, <<>>)
        /\ before' = data
        /\ data' = RemoveTag(data, n)
        /\ outcome' = Return
        /\ UNCHANGED <<calls, datastore, objtype, resources, args, result,
                       paging, resources_before, showcases>>

\* A dataset as read from the remote, with one tag or without the field.
InitTags ==
    /\ data \in {[name |-> "MyDataset1", id |-> "dataset123"],
                 [name |-> "MyDataset1", id |-> "dataset123",
                  tags |-> <<Tag("conflict")>>]}
    /\ objtype = "dataset"
    /\ resources = <<>>
    /\ op = "none"
    /\ pc = "idle"
    /\ calls = <<>>
    /\ outcome = NoOutcome
    /\ ddret = "none"
    /\ files = {}
    /\ ndownloads = 0
    /\ url = None
    /\ path = NoPath
    /\ f = None
    /\ rows = 0
    /\ offset = 0
    /\ pending = NoOutcome
    /\ prev = NoProgress
    /\ args = NoArg
    /\ before = EmptyRecord
    /\ result = NoResult
    /\ NoSearch
    /\ NoParam

NextTags ==
    \/ add_tag
    \/ add_tags
    \/ remove_tag

SpecTags == InitTags /\ [][NextTags]_vars

(***************************************************************************)
(* Properties of the tags.                                                 *)
(***************************************************************************)
\* No element occurs twice in the list.
NoDuplicates(l) == \A i, j \in 1..Len(l) : l[i] = l[j] => i = j

\* The position of the first occurrence of x in the list l.
FirstAt(l, x) == CHOOSE i \in 1..Len(l) : l[i] = x /\ \A j \in 1..(i - 1) : l[j] # x

\* The list new is the list old followed by the names of the list given that
\* old does not hold, each once, in the order of their first occurrence.
ExtendedBy(old, given, new) ==
    /\ Len(new) >= Len(old)
    /\ SubSeq(new, 1, Len(old)) = old
    /\ Elems(new) = Elems(old) \cup Elems(given)
    /\ NoDuplicates(new)
    /\ \A i, j \in (Len(old) + 1)..Len(new) :
          i < j => FirstAt(given, new[i]) < FirstAt(given, new[j])

\* C21: get_tags never holds a name twice.  add_tag of a name the dataset
\* has leaves the record as it was, of another name appends it; add_tags
\* appends the names the dataset does not have, each once, in the order
\* they are first given; remove_tag takes out the named tag and no other;
\* add_tag on a dataset without the field tags creates it with that tag.
C21_TagsInsertionOrdered ==
    /\ NoDuplicates(get_tags(data))
    /\ (op = "add_tag" /\ pc = "done") =>
          /\ IF param.id \in Elems(get_tags(before))
             THEN data = before
             ELSE get_tags(data) = Append(get_tags(before), param.id)
          /\ "tags" \notin DOMAIN before => data["tags"] = <<[name |-> param.id]>>
    /\ (op = "add_tags" /\ pc = "done") =>
          ExtendedBy(get_tags(before), param.list, get_tags(data))
    /\ (op = "remove_tag" /\ pc = "done") =>
          /\ Elems(get_tags(data)) = Elems(get_tags(before)) \ {param.id}
          /\ \A i, j \in 1..Len(get_tags(data)) :
                i < j => FirstAt(get_tags(before), get_tags(data)[i])
                            < FirstAt(get_tags(before), get_tags(data)[j])
    /\ (op \in {"add_tag", "add_tags", "remove_tag"} /\ pc = "done") =>
          /\ \A fld \in DOMAIN before : fld \in DOMAIN data
          /\ \A fld \in DOMAIN data \ {"tags"} :
                fld \in DOMAIN before /\ data[fld] = before[fld]

\* add_tags(['ABC', 'LALA', 'ABC']) on the tags conflict, LALA: ABC is added
\* once, LALA not again.
C21_Witness ==
    /\ op = "add_tags" /\ pc = "done"
    /\ get_tags(before) = <<"conflict", "LALA">>
    /\ param.list = <<"ABC", "LALA", "ABC">>
    /\ get_tags(data) = <<"conflict", "LALA", "ABC">>

(***************************************************************************)
(* A dataset whose data is served on request: the flag                     *)
(* is_requestdata_type, and the lists of field names (field_names) and of  *)
(* file types (file_types) such a dataset carries.  The file-type methods  *)
(* are the field-name methods on the other field.  Each method is one      *)
(* step.                                                                   *)
(***************************************************************************)
ListFields == {"field_names", "file_types"}

\* The names the methods are called with.
ListValues(fld) ==
    IF fld = "field_names"
    THEN {"myfield1", "myfield2", "myfield3"}
    ELSE {"mytype1", "mytype2"}

\* The record after set_requestable(requestable): a dataset that is served
\* on request is made public, one that is not keeps its private field.
RequestableData_always_public(d, requestable) ==
    Put(Put(d, "is_requestdata_type", requestable), "private", FALSE)

RequestableData(d, requestable) ==
    IF requestable
    THEN Put(Put(d, "is_requestdata_type", TRUE), "private", FALSE)
    ELSE Put(d, "is_requestdata_type", FALSE)

\* Dataset.is_requestable()
is_requestable(d) ==
    "is_requestdata_type" \in DOMAIN d /\ d["is_requestdata_type"]

\* Dataset.get_fieldnames() / get_filetypes(): the list of the field, empty
\* when the dataset has no such field.
get_fieldnames(d, fld) == IF fld \in DOMAIN d THEN d[fld] ELSE <<>>

\* The record after a name was added to the list, and what is returned:
\* True if the name was added, False if the list had it.
AddString_says_added(d, fld, x) ==
    IF x \in Elems(get_fieldnames(d, fld))
    THEN [data |-> d, ret |-> TRUE]
    ELSE [data |-> Put(d, fld, Append(get_fieldnames(d, fld), x)), ret |-> TRUE]

AddString(d, fld, x) ==
    IF x \in Elems(get_fieldnames(d, fld))
    THEN [data |-> d, ret |-> FALSE]
    ELSE [data |-> Put(d, fld, Append(get_fieldnames(d, fld), x)), ret |-> TRUE]

\* The same for a list of names: each is added in turn, and True is
\* returned only if all of them were added.
RECURSIVE AddStrings(_, _, _)
AddStrings(d, fld, xs) ==
    IF xs = <<>>
    THEN [data |-> d, ret |-> TRUE]
    ELSE LET first == AddString(d, fld, Head(xs))
             rest == AddStrings(first.data, fld, Tail(xs))
         IN [data |-> rest.data, ret |-> first.ret /\ rest.ret]

\* The record after a name was taken out of the list, and what is returned:
\* True if the list had the name.
RemoveString(d, fld, x) ==
    IF x \in Elems(get_fieldnames(d, fld))
    THEN [data |-> Put(d, fld, SelectSeq(d[fld], LAMBDA y : y # x)), ret |-> TRUE]
    ELSE [data |-> d, ret |-> FALSE]

\* What a method that answers True or False has returned.
Returned(b) == [kind |-> IF b THEN "True" ELSE "False", data |-> EmptyRecord]

\* Dataset.set_requestable(requestable=True)
set_requestable ==
    \E requestable \in BOOLEAN :
        /\ Idle
        /\ objtype = "dataset"
        /\ op' = "set_requestable"
        /\ pc' = "done"
        /\ param' = Param(IF requestable THEN "True" ELSE "False",
                          EmptyRecord, None, <<>>)
        /\ before' = data
        /\ data' = RequestableData(data, requestable)
        /\ outcome' = Return
        /\ result' = NoResult
        /\ UNCHANGED <<calls, datastore, objtype, resources, args, paging,
                       resources_before, showcases>>

\* dataset['private'] = value, by the caller.
set_private ==
    \E value \in BOOLEAN :
        /\ Idle
        /\ objtype = "dataset"
        /\ op' = "set_private"
        /\ pc' = "done"
        /\ param' = Param(IF value THEN "True" ELSE "False",
                          EmptyRecord, None, <<>>)
        /\ before' = data
        /\ data' = Put(data, "private", value)
        /\ outcome' = Return
        /\ result' = NoResult
        /\ UNCHANGED <<calls, datastore, objtype, resources, args, paging,
                       resources_before, showcases>>

\* Dataset.add_fieldname(fieldname) and Dataset.add_filetype(filetype), on a
\* dataset that is served on request.
add_fieldname ==
    \E fld \in ListFields : \E x \in ListValues(fld) :
        /\ Idle
        /\ objtype = "dataset"
        /\ is_requestable(data)
        /\ op' = "add_fieldname"
        /\ pc' = "done"
        /\ param' = Param(fld, EmptyRecord, x, <<>>)
        /\ before' = data
        /\ data' = AddString(data, fld, x).data
        /\ result' = Returned(AddString(data, fld, x).ret)
        /\ outcome' = Return
        /\ UNCHANGED <<calls, datastore, objtype, resources, args, paging,
                       resources_before, showcases>>

\* Dataset.add_fieldnames(fieldnames) and Dataset.add_filetypes(filetypes)
add_fieldnames ==
    \E fld \in ListFields : \E xs \in ListsOf(ListValues(fld), 2) :
        /\ Idle
        /\ objtype = "dataset"
        /\ is_requestable(data)
        /\ op' = "add_fieldnames"
        /\ pc' = "done"
        /\ param' = Param(fld, EmptyRecord, None, xs)
        /\ before' = data
        /\ data' = AddStrings(data, fld, xs).data
        /\ result' = Returned(AddStrings(data, fld, xs).ret)
        /\ outcome' = Return
        /\ UNCHANGED <<calls, datastore, objtype, resources, args, paging,
                       resources_before, showcases>>

\* Dataset.remove_fieldname(fieldname) and Dataset.remove_filetype(filetype)
remove_fieldname ==
    \E fld \in ListFields : \E x \in ListValues(fld) :
        /\ Idle
        /\ objtype = "dataset"
        /\ is_requestable(data)
        /\ op' = "remove_fieldname"
        /\ pc' = "done"
        /\ param' = Param(fld, EmptyRecord, x, <<>>)
        /\ before' = data
        /\ data' = RemoveString(data, fld, x).data
        /\ result' = Returned(RemoveString(data, fld, x).ret)
        /\ outcome' = Return
        /\ UNCHANGED <<calls, datastore, objtype, resources, args, paging,
                       resources_before, showcases>>

\* A new dataset, its private field set either way or not at all.
InitRequest ==
    /\ data \in {[name |-> "MyDataset1"]}
                   \cup {[name |-> "MyDataset1", private |-> b] : b \in BOOLEAN}
    /\ objtype = "dataset"
    /\ resources = <<>>
    /\ op = "none"
    /\ pc = "idle"
    /\ calls = <<>>
    /\ outcome = NoOutcome
    /\ ddret = "none"
    /\ files = {}
    /\ ndownloads = 0
    /\ url = None
    /\ path = NoPath
    /\ f = None
    /\ rows = 0
    /\ offset = 0
    /\ pending = NoOutcome
    /\ prev = NoProgress
    /\ args = NoArg
    /\ before = EmptyRecord
    /\ result = NoResult
    /\ NoSearch
    /\ NoParam

NextRequest ==
    \/ set_requestable
    \/ set_private
    \/ add_fieldname
    \/ add_fieldnames
    \/ remove_fieldname

SpecRequest == InitRequest /\ [][NextRequest]_vars

(***************************************************************************)
(* Properties of a dataset served on request.                              *)
(***************************************************************************)
\* The list the method was called on, before the call and after it.
ListBefore == get_fieldnames(before, param.kind)

ListAfter == get_fieldnames(data, param.kind)

\* C22: on a dataset served on request, add_fieldname (add_filetype)
\* returns True exactly when the list did not hold the name, and then appends
\* it; add_fieldnames returns False when the list held one of the names (or
\* a name is given twice) and appends the others all the same, each once in
\* the order given; remove_fieldname returns True exactly when the list held
\* the name, and takes it out, so that a second removal returns False; the
\* list keeps the order of insertion and never holds a name twice.
C22_FieldNameList ==
    /\ \A fld \in ListFields : NoDuplicates(get_fieldnames(data, fld))
    /\ (op = "add_fieldname" /\ pc = "done") =>
          /\ result.kind = "True" <=> param.id \notin Elems(ListBefore)
          /\ result.kind \in {"True", "False"}
          /\ ListAfter = IF result.kind = "True"
                         THEN Append(ListBefore, param.id)
                         ELSE ListBefore
    /\ (op = "add_fieldnames" /\ pc = "done") =>
          /\ result.kind = "False" <=>
                \/ \E i \in 1..Len(param.list) : param.list[i] \in Elems(ListBefore)
                \/ ~NoDuplicates(param.list)
          /\ result.kind \in {"True", "False"}
          /\ ExtendedBy(ListBefore, param.list, ListAfter)
    /\ (op = "remove_fieldname" /\ pc = "done") =>
          /\ result.kind = "True" <=> param.id \in Elems(ListBefore)
          /\ result.kind \in {"True", "False"}
          /\ param.id \notin Elems(ListAfter)
          /\ ListAfter = SelectSeq(ListBefore, LAMBDA y : y # param.id)
          /\ RemoveString(data, param.kind, param.id).ret = FALSE
    /\ (op \in {"add_fieldname", "add_fieldnames", "remove_fieldname"}
          /\ pc = "done") =>
          /\ outcome = Return
          /\ \A fld \in DOMAIN data \ {param.kind} :
                fld \in DOMAIN before /\ data[fld] = before[fld]

\* add_fieldnames(['myfield1', 'myfield2']) on the list myfield1: False is
\* returned and myfield2 is added.
C22_Witness ==
    /\ op = "add_fieldnames" /\ pc = "done"
    /\ param.kind = "field_names"
    /\ ListBefore = <<"myfield1">>
    /\ param.list = <<"myfield1", "myfield2">>
    /\ result.kind = "False"
    /\ ListAfter = <<"myfield1", "myfield2">>

\* C23: set_requestable() sets is_requestdata_type to True and private to
\* False; set_requestable(False) sets is_requestdata_type to False and
\* leaves private as it was, set or not; no other field changes.
C23_SetRequestable ==
    (op = "set_requestable" /\ pc = "done") =>
        /\ "is_requestdata_type" \in DOMAIN data
        /\ IF param.kind = "True"
           THEN /\ data["is_requestdata_type"] = TRUE
                /\ "private" \in DOMAIN data /\ data["private"] = FALSE
           ELSE /\ data["is_requestdata_type"] = FALSE
                /\ "private" \in DOMAIN data <=> "private" \in DOMAIN before
                /\ "private" \in DOMAIN data => data["private"] = before["private"]
        /\ \A fld \in DOMAIN before \ {"is_requestdata_type", "private"} :
              fld \in DOMAIN data /\ data[fld] = before[fld]
        /\ DOMAIN data \subseteq
              DOMAIN before \cup {"is_requestdata_type", "private"}

\* set_requestable(False) on a private dataset with a list of field names.
C23_Witness ==
    /\ op = "set_requestable" /\ pc = "done"
    /\ param.kind = "False"
    /\ "private" \in DOMAIN before /\ before["private"] = TRUE
    /\ is_requestable(before)
    /\ get_fieldnames(before, "field_names") # <<>>
    /\ data["is_requestdata_type"] = FALSE
    /\ data["private"] = TRUE
====
